---- MODULE Spec2Model ----
(***************************************************************************)
(* Content-gap analysis core of Appscript-Basic-Pulls.                     *)
(*                                                                         *)
(*   SpecPriority  computePriority of the pipeline, applied to bounded     *)
(*                 inputs                                                  *)
(*   SpecGap       runContentGapAnalysis over a GapAnalysisStore file:     *)
(*                 theme recording, outline generation, scoring, save()    *)
(*   SpecAnalyse   ContentGapAnalyzer.analyse over a ContentGapStore       *)
(*   SpecStore     FileVectorStore: overlapping upsert calls, the write    *)
(*                 queue, I/O errors and process crashes                   *)
(*   SpecStoreSeq  FileVectorStore: awaited upsert calls and restarts      *)
(*   SpecGapOverlap  runContentGapAnalysis, two calls in flight at once    *)
(*   SpecCluster   clusterQuestions: batched embedding, greedy clustering  *)
(*   SpecQuery     FileVectorStore.query and detectGaps for one cluster,   *)
(*                 scores in IEEE 754 doubles                              *)
(*   SpecReaders   GapAnalysisStore: recordTheme, getTheme and save with a *)
(*                 caller that assigns to the objects it was handed        *)
(*   SpecEmbed     embedText: chunking, one call per chunk, the average    *)
(*   SpecExtract   extractQuestions of the pipeline, applied to bounded    *)
(*                 chat logs                                               *)
(*                                                                         *)
(* Numbers: weights are kept in tenths (7 is 0.7), similarity scores in    *)
(* hundredths (80 is 0.80); priorities are the integers the code returns.  *)
(* Arithmetic is exact (rationals), Math.round is round-half-up.  The      *)
(* cosine scores of SpecQuery are IEEE 754 binary64 values, rounded as the *)
(* runtime rounds them.                                                    *)
(***************************************************************************)
EXTENDS Integers, Sequences, FiniteSets, TLC

VARIABLES
  pIn,         \* computePriority: the arguments of the call
  pOut,        \* computePriority: the outcome of the call
  gaFile,      \* data/gap_analysis.json on disk
  runs,        \* runContentGapAnalysis: one record per run slot
  runsStarted, \* number of runs started so far; also the clock of lastSeen
  commits,     \* history: per theme id, the number of saved runs that recorded it
               \* once, or -1 once a save followed two recordings of it in one
               \* run, wrote a cache that was never loaded, or was cut short
  reported,    \* history: per theme id, the last suggestion a completed run returned
  cgStore,     \* ContentGapStore behind the analyser: its records, in key order
  an,          \* ContentGapAnalyzer.analyse: the locals of the call
  anCalls,     \* number of analyse() calls so far; also the clock of nowIso
  vsFile,      \* FileVectorStore: the target file (data/embeddings.json)
  vsTemp,      \* the temp file of each write: <filename>.<pid>.<now>.tmp
  vsObjs,      \* the heap: every object a _load of this process has created
  vsCache,     \* this._cache: 0 (null) or the index of an object of the heap
  vsPending,   \* this._pending: null, or a promise of the write queue
  vsCalls,     \* the upsert calls: arguments, position, `store`, payload
  vsIssued,    \* number of upsert calls issued so far
  cq,          \* clusterQuestions: the locals of the call
  vq,          \* FileVectorStore.query and detectGaps for one cluster: the locals
  rd,          \* a GapAnalysisStore instance and the object its caller holds
  et,          \* embedText: the locals of the call
  xq           \* extractQuestions: the argument and the result

priVars == <<pIn, pOut>>
gapVars == <<gaFile, runs, runsStarted, commits, reported>>
anVars == <<cgStore, an, anCalls>>
vsVars == <<vsFile, vsTemp, vsObjs, vsCache, vsPending, vsCalls, vsIssued>>
clVars == <<cq>>
fnVars == <<vq, rd, et, xq>>
vars == <<priVars, gapVars, anVars, vsVars, clVars, fnVars>>

(***************************************************************************)
(* Bounds                                                                  *)
(***************************************************************************)
MaxRuns == 3
MaxFrequencyArg == 3
MaxConversations == 3
MaxCalls == 2
MaxQuestions == 3
BurstLen == 9

(***************************************************************************)
(* Small helpers                                                           *)
(***************************************************************************)
Min(a, b) == IF a <= b THEN a ELSE b
Max(a, b) == IF a >= b THEN a ELSE b

RECURSIVE SeqMax(_)
SeqMax(s) == IF s = <<>> THEN 0 ELSE Max(Head(s), SeqMax(Tail(s)))

Take(s, n) == SubSeq(s, 1, Min(n, Len(s)))

(***************************************************************************)
(* Priority scoring                                                        *)
(***************************************************************************)
\* A weight is <<>> (undefined) or <<tenths>>.
DefaultWeights == [frequency |-> <<7>>, recurring |-> <<3>>]

\* `weights.frequency ?? 1`
WeightOrOne(w) == IF w = <<>> THEN 10 ELSE w[1]

\* Math.round(n / d) for d > 0: the nearest integer, ties towards +Infinity.
MathRound(n, d) == (2 * n + d) \div (2 * d)

Threw == [kind |-> "threw", value |-> 0]
Returned(v) == [kind |-> "returned", value |-> v]
NotCalled == [kind |-> "none", value |-> 0]

\* Mutant of computePriority: the recurring term is subtracted.
computePrioritySubtracts(frequency, recurring, maxFrequency, weights) ==
  IF maxFrequency <= 0
    THEN Threw
    ELSE LET wF == WeightOrOne(weights.frequency)
             wR == WeightOrOne(weights.recurring)
             rawNum == frequency * 100 * wF - recurring * wR * maxFrequency
             rawDen == 10 * maxFrequency
         IN Returned(Min(100, MathRound(rawNum, rawDen)))

\* raw = (frequency / maxFrequency) * 100 * wF + recurring * wR, as the
\* fraction rawNum / rawDen with the weights in tenths.
computePriority(frequency, recurring, maxFrequency, weights) ==
  IF maxFrequency <= 0
    THEN Threw
    ELSE LET wF == WeightOrOne(weights.frequency)
             wR == WeightOrOne(weights.recurring)
             rawNum == frequency * 100 * wF + recurring * wR * maxFrequency
             rawDen == 10 * maxFrequency
         IN Returned(Min(100, MathRound(rawNum, rawDen)))

WeightValues == {<<>>, <<-10>>, <<0>>, <<3>>, <<7>>, <<10>>, <<20>>}
WeightPairs == [frequency : WeightValues, recurring : WeightValues]
RecurringValues == {r \in 0..100 : r % 5 = 0}

(***************************************************************************)
(* Text: a string is a sequence of one-character strings                   *)
(***************************************************************************)
AlNum == {"a", "b", "d", "0"}

toLowerCase(c) ==
  CASE c = "A" -> "a"
    [] c = "B" -> "b"
    [] c = "D" -> "d"
    [] OTHER -> c

LowerAll(s) == [i \in 1..Len(s) |-> toLowerCase(s[i])]

\* .replace(/[^a-z0-9]+/g, '-'): every maximal run of other characters
\* becomes one '-'.
RECURSIVE DashRuns(_, _)
DashRuns(s, inRun) ==
  IF s = <<>> THEN <<>>
  ELSE IF Head(s) \in AlNum THEN <<Head(s)>> \o DashRuns(Tail(s), FALSE)
  ELSE IF inRun THEN DashRuns(Tail(s), TRUE)
  ELSE <<"-">> \o DashRuns(Tail(s), TRUE)

\* .replace(/^-+|-+$/g, ''): after DashRuns there is at most one '-' at
\* either end.
StripDashes(s) ==
  LET a == IF s # <<>> /\ Head(s) = "-" THEN Tail(s) ELSE s
  IN IF a # <<>> /\ a[Len(a)] = "-" THEN SubSeq(a, 1, Len(a) - 1) ELSE a

SlugMaxLen == 60

slugify(str) == Take(StripDashes(DashRuns(LowerAll(str), FALSE)), SlugMaxLen)

(***************************************************************************)
(* GapAnalysisStore: the file and the in-memory cache                      *)
(*                                                                         *)
(* The file is absent, whole (a complete JSON text) or partial (a write    *)
(* was cut short: every proper prefix of the JSON text of an object or of  *)
(* `null`, the empty prefix included, fails to parse).  A JSON text is the *)
(* literal null or an object {themes: {...}} written as its entries        *)
(* <<id, occurrences, lastSeen, topic>> in key order.                      *)
(***************************************************************************)
NullText == [kind |-> "null", entries |-> <<>>]
ObjectText(entries) == [kind |-> "object", entries |-> entries]

AbsentFile == [state |-> "absent", text |-> NullText]
PartialFile == [state |-> "partial", text |-> NullText]
WholeFile(text) == [state |-> "whole", text |-> text]

\* The cache: JS null, or {themes: ...} as an ordered list of
\* [id, occurrences, lastSeen, topic] (insertion order of the keys).
NullCache == [kind |-> "null", themes |-> <<>>]
ObjectCache(themes) == [kind |-> "object", themes |-> themes]

\* JSON.stringify(this._cache, null, 2)
JSONstringify(cache) ==
  IF cache.kind = "null" THEN NullText
  ELSE ObjectText([i \in 1..Len(cache.themes) |->
         <<cache.themes[i].id, cache.themes[i].occurrences,
           cache.themes[i].lastSeen, cache.themes[i].topic>>])

\* JSON.parse(raw) of a complete text
JSONparse(text) ==
  IF text.kind = "null" THEN NullCache
  ELSE ObjectCache([i \in 1..Len(text.entries) |->
         [id |-> text.entries[i][1], occurrences |-> text.entries[i][2],
          lastSeen |-> text.entries[i][3], topic |-> text.entries[i][4]]])

LoadOk(cache) == [ok |-> TRUE, cache |-> cache]
LoadThrew == [ok |-> FALSE, cache |-> NullCache]

\* Mutant of GapLoad: a store that starts empty whatever the file holds.
GapLoadIgnoresFile(cache, file) ==
  IF cache.kind # "null" THEN LoadOk(cache) ELSE LoadOk(ObjectCache(<<>>))

\* GapAnalysisStore._load: the cache if it is set, else the parsed file;
\* ENOENT gives { themes: {} }, any other error is rethrown.
GapLoad(cache, file) ==
  IF cache.kind # "null" THEN LoadOk(cache)
  ELSE IF file.state = "absent" THEN LoadOk(ObjectCache(<<>>))
  ELSE IF file.state = "partial" THEN LoadThrew
  ELSE LoadOk(JSONparse(file.text))

ThemeIndex(themes, id) ==
  IF \E i \in 1..Len(themes) : themes[i].id = id
    THEN CHOOSE i \in 1..Len(themes) : themes[i].id = id
    ELSE 0

\* recordTheme after a load that returned an object: `rec.occurrences += 1`,
\* lastSeen, topic, `store.themes[themeId] = rec`.
RecordInto(themes, id, topic, now) ==
  LET i == ThemeIndex(themes, id)
      old == IF i = 0 THEN 0 ELSE themes[i].occurrences
      rec == [id |-> id, occurrences |-> old + 1, lastSeen |-> now, topic |-> topic]
  IN IF i = 0 THEN Append(themes, rec) ELSE [themes EXCEPT ![i] = rec]

\* occurrences of a theme in a list of themes, 0 when it has no record
OccIn(themes, id) ==
  LET i == ThemeIndex(themes, id) IN IF i = 0 THEN 0 ELSE themes[i].occurrences

\* What a fresh store instance opened on the file sees.
FreshLoad == GapLoad(NullCache, gaFile)
FreshOcc(id) ==
  IF FreshLoad.ok /\ FreshLoad.cache.kind = "object"
    THEN OccIn(FreshLoad.cache.themes, id) ELSE 0

(***************************************************************************)
(* runContentGapAnalysis                                                   *)
(*                                                                         *)
(* A run is given the clusters its questions form (topic, number of        *)
(* questions, best documentation match) and options.weights.               *)
(***************************************************************************)
TopicA == <<"A", "b", "?">>
TopicB == <<"a", "b", " ", "?">>
TopicD == <<"D", "0", "?">>
Topics == {TopicA, TopicB, TopicD}
ThemeIds == {slugify(t) : t \in Topics}
LlmTopic == <<"t">>

\* best is <<>> (the document store returned no neighbour) or <<score>>.
Cluster(topic, n, best) == [topic |-> topic, n |-> n, best |-> best]

ClusterLists ==
  { <<>>,
    <<Cluster(TopicA, 1, <<90>>)>>,
    <<Cluster(TopicA, 1, <<10>>)>>,
    <<Cluster(TopicA, 2, <<>>)>>,
    <<Cluster(TopicA, 1, <<10>>), Cluster(TopicB, 1, <<10>>)>>,
    <<Cluster(TopicD, 2, <<80>>), Cluster(TopicA, 1, <<10>>)>>,
    <<Cluster(TopicD, 1, <<10>>), Cluster(TopicA, 2, <<10>>)>> }

\* options.weights: the keys it has, and their values.
WeightOptions ==
  { [has |-> {}, val |-> DefaultWeights],
    [has |-> {"recurring"}, val |-> [frequency |-> <<7>>, recurring |-> <<-3>>]],
    [has |-> {"frequency", "recurring"}, val |-> [frequency |-> <<10>>, recurring |-> <<>>]] }

\* { ...DEFAULTS.weights, ...(options.weights ?? {}) }
MergeWeights(o) ==
  [frequency |-> IF "frequency" \in o.has THEN o.val.frequency ELSE DefaultWeights.frequency,
   recurring |-> IF "recurring" \in o.has THEN o.val.recurring ELSE DefaultWeights.recurring]

DefaultCoverageThreshold == 80

\* detectGaps: `!best || best.score < coverageThreshold`
IsGap(c, coverageThreshold) == c.best = <<>> \/ c.best[1] < coverageThreshold
detectGaps(clusters, coverageThreshold) ==
  SelectSeq(clusters, LAMBDA c : IsGap(c, coverageThreshold))

\* clusters.reduce((max, c) => Math.max(max, c.questions.length), 0) || 1
MaxFrequencyOf(clusters) ==
  LET m == SeqMax([i \in 1..Len(clusters) |-> clusters[i].n])
  IN IF m = 0 THEN 1 ELSE m

\* suggestions.sort((a, b) => b.priority - a.priority): stable, descending.
RECURSIVE InsertByPriority(_, _)
InsertByPriority(sorted, s) ==
  IF sorted = <<>> THEN <<s>>
  ELSE IF Head(sorted).priority >= s.priority
    THEN <<Head(sorted)>> \o InsertByPriority(Tail(sorted), s)
    ELSE <<s>> \o sorted

\* Mutant of SortByPriority: the suggestions stay in the order of the gaps.
KeepGapOrder(list) == list

RECURSIVE SortByPriority(_)
SortByPriority(list) ==
  IF list = <<>> THEN <<>>
  ELSE InsertByPriority(SortByPriority(SubSeq(list, 1, Len(list) - 1)), list[Len(list)])

Slots == {1}
\* The runs one process can have in flight at once; SpecGap starts a run only
\* when none is in flight and uses Slots, SpecGapOverlap uses them all.
AllSlots == {1, 2}
ZeroCounts == [id \in ThemeIds |-> 0]

IdleRun ==
  [pc |-> "idle", weights |-> DefaultWeights, maxFrequency |-> 1, gaps |-> <<>>,
   idx |-> 1, cache |-> NullCache, suggestions |-> <<>>,
   themeId |-> <<>>, recurring |-> 0, scored |-> FALSE,
   payload |-> NullText, before |-> ZeroCounts, recCalls |-> ZeroCounts,
   questions |-> FALSE, saves |-> 0, calls |-> {}]

Active(r) == runs[r].pc \notin {"idle", "done", "threw"}

\* prior: <<p>> when the report before this one had the same frequency,
\* maxFrequency and weights and priority p, else <<>>.
NoReport == [has |-> FALSE, frequency |-> 0, maxFrequency |-> 0,
             weights |-> DefaultWeights, priority |-> 0, prior |-> <<>>]

ParkGap ==
  /\ gaFile = AbsentFile
  /\ runs = [r \in AllSlots |-> IdleRun]
  /\ runsStarted = 0
  /\ commits = ZeroCounts
  /\ reported = [id \in ThemeIds |-> NoReport]

\* Mutant of CallsOfSteps: the run clusters and queries whatever it extracted.
CallsWithoutEarlyReturn(clusters) == {"embedText", "query"}

\* The outside calls of steps 2 and 3: none when `questions.length === 0`
\* returned at once, else clusterQuestions embeds and detectGaps queries.
CallsOfSteps(clusters) == IF clusters = <<>> THEN {} ELSE {"embedText", "query"}

\* Steps 1-3 of the run: questions, clusters, maxFrequency, gaps; then
\* `new GapAnalysisStore()`.  No question: the empty result at once.
\* calls is the history of the run's outside calls: embedText, query,
\* callLLM, and the reads and writes of the gap store file.
BeginRun(r, clusters, options) ==
  /\ runsStarted < MaxRuns
  /\ runsStarted' = runsStarted + 1
  /\ runs' = [runs EXCEPT ![r] =
       IF clusters = <<>>
         THEN [IdleRun EXCEPT !.pc = "done",
                 !.calls = CallsOfSteps(clusters),
                 !.before = [id \in ThemeIds |-> FreshOcc(id)]]
         ELSE [IdleRun EXCEPT
                 !.pc = "loop",
                 !.questions = TRUE,
                 !.calls = CallsOfSteps(clusters),
                 !.weights = MergeWeights(options),
                 !.maxFrequency = MaxFrequencyOf(clusters),
                 !.gaps = detectGaps(clusters, DefaultCoverageThreshold),
                 !.before = [id \in ThemeIds |-> FreshOcc(id)]]]
  /\ UNCHANGED <<gaFile, commits, reported, priVars, anVars, vsVars, clVars, fnVars>>

\* Mutant of SavesAfterRecord: recordTheme persists on every call.
RecordThemePersists(saves) == saves + 1

\* The number of writes of the store after a recordTheme call: it leaves
\* persistence to the caller.
SavesAfterRecord(saves) == saves

\* A run called when no other run is in flight.
StartRun(r, clusters, options) ==
  /\ \A q \in AllSlots : ~Active(q)
  /\ BeginRun(r, clusters, options)

\* A run called while another may be in flight (two requests of one
\* process): it takes a slot that has not run yet.
StartOverlappingRun(r, clusters, options) ==
  /\ runs[r].pc = "idle"
  /\ BeginRun(r, clusters, options)

\* `await store.recordTheme(themeId, { topic: gap.topic })`
RecordTheme(r) ==
  LET run == runs[r]
      gap == run.gaps[run.idx]
      id == slugify(gap.topic)
      ld == GapLoad(run.cache, gaFile)
  IN /\ run.pc = "loop"
     /\ run.idx <= Len(run.gaps)
     /\ runs' = [runs EXCEPT ![r] =
          IF ld.ok /\ ld.cache.kind = "object"
            THEN [run EXCEPT
                    !.pc = "outline",
                    !.calls = IF run.cache = NullCache THEN @ \cup {"readFile"} ELSE @,
                    !.cache = ObjectCache(RecordInto(ld.cache.themes, id, gap.topic, runsStarted)),
                    !.themeId = id,
                    !.scored = FALSE,
                    !.saves = SavesAfterRecord(@),
                    !.recCalls = [run.recCalls EXCEPT ![id] = @ + 1]]
            ELSE [run EXCEPT !.pc = "threw", !.cache = ld.cache,
                    !.calls = IF run.cache = NullCache THEN @ \cup {"readFile"} ELSE @]]
     /\ UNCHANGED <<gaFile, runsStarted, commits, reported, priVars, anVars, vsVars, clVars, fnVars>>

\* `await generateOutline(...)`, then scoring and suggestions.push.
\* themeMeta is the record held by the cache, read when the score is taken.
GenerateOutline(r, outcome) ==
  LET run == runs[r]
      gap == run.gaps[run.idx]
      occurrences == OccIn(run.cache.themes, run.themeId)
      recurring == Min(100, occurrences * 10)
      priority == computePriority(gap.n, recurring, run.maxFrequency, run.weights)
  IN /\ run.pc = "outline"
     /\ \/ /\ outcome = "fail"
           /\ runs' = [runs EXCEPT ![r] = [run EXCEPT
                !.pc = "threw", !.calls = @ \cup {"callLLM"}]]
        \/ /\ outcome # "fail"
           /\ priority.kind = "returned"
           /\ runs' = [runs EXCEPT ![r] = [run EXCEPT
                !.pc = "loop",
                !.calls = @ \cup {"callLLM"},
                !.idx = @ + 1,
                !.recurring = recurring,
                !.scored = TRUE,
                !.suggestions = Append(@,
                   [topic |-> IF outcome = "topic" THEN LlmTopic ELSE gap.topic,
                    gapTopic |-> gap.topic,
                    priority |-> priority.value,
                    frequency |-> gap.n,
                    recurring |-> occurrences])]]
     /\ UNCHANGED <<gaFile, runsStarted, commits, reported, priVars, anVars, vsVars, clVars, fnVars>>

\* After the loop: the sort, then save() -> _persist() -> `await fs.mkdir`.
FinishLoop(r) ==
  LET run == runs[r]
  IN /\ run.pc = "loop"
     /\ run.idx > Len(run.gaps)
     /\ runs' = [runs EXCEPT ![r] = [run EXCEPT
          !.pc = "mkdir", !.saves = @ + 1, !.suggestions = SortByPriority(@)]]
     /\ UNCHANGED <<gaFile, runsStarted, commits, reported, priVars, anVars, vsVars, clVars, fnVars>>

\* The path fs.writeFile writes to and how it starts: the store file itself,
\* opened with truncation.
PersistTarget == "file"
BeginWriteFile(r) ==
  LET run == runs[r]
  IN /\ run.pc = "mkdir"
     /\ runs' = [runs EXCEPT ![r] = [run EXCEPT
          !.pc = "writing", !.payload = JSONstringify(run.cache),
          !.calls = @ \cup {"writeFile"}]]
     /\ gaFile' = IF PersistTarget = "file" THEN PartialFile ELSE gaFile
     /\ UNCHANGED <<runsStarted, commits, reported, priVars, anVars, vsVars, clVars, fnVars>>

ReportOf(run, id) ==
  LET old == reported[id]
      hits == SelectSeq(run.suggestions, LAMBDA s : slugify(s.gapTopic) = id)
      same == IF old.has /\ old.maxFrequency = run.maxFrequency /\ old.weights = run.weights
                THEN SelectSeq(hits, LAMBDA s : s.frequency = old.frequency)
                ELSE <<>>
      new == IF same # <<>> THEN same[Len(same)] ELSE hits[Len(hits)]
  IN IF hits = <<>> THEN old
     ELSE [has |-> TRUE, frequency |-> new.frequency,
           maxFrequency |-> run.maxFrequency, weights |-> run.weights,
           priority |-> new.priority,
           prior |-> IF same # <<>> THEN <<old.priority>> ELSE <<>>]

\* fs.writeFile resolves; save() returns; the run returns its suggestions.
\* While another fs.writeFile is writing the same file, what the file holds
\* is either payload or a mix of the two.
EndWriteFile(r) ==
  LET run == runs[r]
  IN /\ run.pc = "writing"
     /\ gaFile' \in IF \E q \in AllSlots \ {r} : runs[q].pc = "writing"
                      THEN {WholeFile(run.payload), PartialFile}
                      ELSE {WholeFile(run.payload)}
     /\ runs' = [runs EXCEPT ![r] = [run EXCEPT !.pc = "done"]]
     /\ commits' = [id \in ThemeIds |->
          IF commits[id] < 0 \/ run.cache.kind # "object" \/ run.recCalls[id] > 1 THEN -1
          ELSE commits[id] + run.recCalls[id]]
     /\ reported' = [id \in ThemeIds |-> ReportOf(run, id)]
     /\ UNCHANGED <<runsStarted, priVars, anVars, vsVars, clVars, fnVars>>

\* The process dies: every run in flight is gone, the disk stays as it is.
Crash ==
  /\ \E r \in AllSlots : Active(r)
  /\ runs' = [r \in AllSlots |-> IdleRun]
  /\ commits' = IF \E r \in AllSlots : runs[r].pc = "writing"
                  THEN [id \in ThemeIds |-> -1] ELSE commits
  /\ UNCHANGED <<gaFile, runsStarted, reported, priVars, anVars, vsVars, clVars, fnVars>>

NextGap ==
  \/ \E r \in Slots, c \in ClusterLists, o \in WeightOptions : StartRun(r, c, o)
  \/ \E r \in Slots : RecordTheme(r)
  \/ \E r \in Slots, outcome \in {"topic", "plain", "fail"} : GenerateOutline(r, outcome)
  \/ \E r \in Slots : FinishLoop(r)
  \/ \E r \in Slots : BeginWriteFile(r)
  \/ \E r \in Slots : EndWriteFile(r)
  \/ Crash

NextGapOverlap ==
  \/ \E r \in AllSlots, c \in ClusterLists, o \in WeightOptions : StartOverlappingRun(r, c, o)
  \/ \E r \in AllSlots : RecordTheme(r)
  \/ \E r \in AllSlots, outcome \in {"topic", "plain", "fail"} : GenerateOutline(r, outcome)
  \/ \E r \in AllSlots : FinishLoop(r)
  \/ \E r \in AllSlots : BeginWriteFile(r)
  \/ \E r \in AllSlots : EndWriteFile(r)
  \/ Crash

(***************************************************************************)
(* ContentGapAnalyzer.analyse                                              *)
(***************************************************************************)
\* String.prototype.trim, over the one white-space character of the texts
RECURSIVE TrimStart(_)
TrimStart(s) == IF s # <<>> /\ Head(s) = " " THEN TrimStart(Tail(s)) ELSE s

RECURSIVE TrimEnd(_)
TrimEnd(s) ==
  IF s # <<>> /\ s[Len(s)] = " " THEN TrimEnd(SubSeq(s, 1, Len(s) - 1)) ELSE s

trim(s) == TrimEnd(TrimStart(s))

endsWith(s, c) == s # <<>> /\ s[Len(s)] = c

\* .replace(/\s+/g, ' ')
RECURSIVE CollapseSpaces(_, _)
CollapseSpaces(s, inRun) ==
  IF s = <<>> THEN <<>>
  ELSE IF Head(s) # " " THEN <<Head(s)>> \o CollapseSpaces(Tail(s), FALSE)
  ELSE IF inRun THEN CollapseSpaces(Tail(s), TRUE)
  ELSE <<" ">> \o CollapseSpaces(Tail(s), TRUE)

\* text.toLowerCase().replace(/[^a-z0-9\s]/g, '').replace(/\s+/g, ' ').trim()
normalise(text) ==
  trim(CollapseSpaces(
    SelectSeq(LowerAll(text), LAMBDA c : c \in AlNum \/ c = " "), FALSE))

KebabMaxLen == 80
kebabCase(text) == Take(StripDashes(DashRuns(LowerAll(text), FALSE)), KebabMaxLen)

\* computePriority(frequency) of the analyser: Math.min(100, frequency * 10)
PriorityOfFrequency(frequency) == Min(100, frequency * 10)

SIMILARITY_THRESHOLD == 30
TopicSliceLen == 50

\* Messages
QuestionX == <<"A", "b", "?">>
QuestionXSpaced == <<"a", "b", "?", " ">>
QuestionY == <<"D", " ", "0", "?">>
Chatter == <<"d", "0">>

\* A conversation: a flat array of messages, an object with a messages
\* array, or an object without one.
Convo(shape, messages) == [shape |-> shape, messages |-> messages]
Conversations ==
  { Convo("array", <<QuestionX>>),
    Convo("object", <<QuestionX, Chatter>>),
    Convo("array", <<Chatter, QuestionX>>),
    Convo("object", <<QuestionY, QuestionXSpaced>>),
    Convo("other", <<>>) }

RECURSIVE SeqsUpTo(_, _)
SeqsUpTo(S, n) ==
  IF n = 0 THEN {<<>>}
  ELSE LET shorter == SeqsUpTo(S, n - 1)
       IN shorter \cup {Append(q, x) : q \in {t \in shorter : Len(t) = n - 1}, x \in S}

ChatLogs == SeqsUpTo(Conversations, MaxConversations)

\* Mutant of MessagesOf: only flat arrays are read.
MessagesOfArraysOnly(convo) == IF convo.shape = "array" THEN convo.messages ELSE <<>>

\* Array.isArray(convo) ? convo : Array.isArray(convo.messages) ? convo.messages : []
MessagesOf(convo) == IF convo.shape = "other" THEN <<>> ELSE convo.messages

FreqIndex(freq, norm) ==
  IF \E i \in 1..Len(freq) : freq[i].norm = norm
    THEN CHOOSE i \in 1..Len(freq) : freq[i].norm = norm
    ELSE 0

\* The body of the inner loop: a message that ends with '?' once trimmed is
\* counted under its normalised text; the first spelling seen is kept.
CountMessage(freq, msg) ==
  IF endsWith(trim(msg), "?")
    THEN LET norm == normalise(msg)
             i == FreqIndex(freq, norm)
         IN IF i = 0
              THEN Append(freq, [norm |-> norm, original |-> trim(msg), count |-> 1])
              ELSE [freq EXCEPT ![i].count = @ + 1]
    ELSE freq

RECURSIVE CountMessages(_, _)
CountMessages(freq, msgs) ==
  IF msgs = <<>> THEN freq
  ELSE CountMessages(CountMessage(freq, Head(msgs)), Tail(msgs))

RECURSIVE CountConversations(_, _)
CountConversations(freq, logs) ==
  IF logs = <<>> THEN freq
  ELSE CountConversations(CountMessages(freq, MessagesOf(Head(logs))), Tail(logs))

\* ContentGapStore.get / upsert on the in-memory object of records
StoreIndex(store, gapId) ==
  IF \E i \in 1..Len(store) : store[i].id = gapId
    THEN CHOOSE i \in 1..Len(store) : store[i].id = gapId
    ELSE 0

\* { ...existing, ...data }: data carries every field of a gap object
StoreUpsert(store, gapObj) ==
  LET i == StoreIndex(store, gapObj.id)
  IN IF i = 0 THEN Append(store, gapObj) ELSE [store EXCEPT ![i] = gapObj]

\* What callLLM and the two JSON.parse fallbacks leave in `parsed`:
\* a JSON object with a topic, one without, plain text, or a failed call.
LlmOutcomes == {"json", "jsonNoTopic", "text", "fail"}
ParsedTopic(outcome, original) ==
  CASE outcome = "json" -> LlmTopic
    [] outcome = "jsonNoTopic" -> <<>>
    [] OTHER -> Take(original, TopicSliceLen)
ParsedOutline(outcome) ==
  CASE outcome = "fail" -> "- TBD"
    [] outcome = "text" -> "raw text"
    [] OTHER -> "outline"

\* The gap object of one settled entry that the documentation does not cover.
GapObject(store, entry, outcome, now) ==
  LET topic == ParsedTopic(outcome, entry.original)
      named == IF topic # <<>> THEN topic ELSE entry.original
      gapId == kebabCase(named)
      i == StoreIndex(store, gapId)
      frequency == IF i = 0 THEN entry.count ELSE store[i].frequency + entry.count
  IN [id |-> gapId, topic |-> named, question |-> entry.original,
      outline |-> ParsedOutline(outcome), frequency |-> frequency,
      priority |-> PriorityOfFrequency(frequency),
      firstSeen |-> IF i = 0 THEN now ELSE store[i].firstSeen,
      lastSeen |-> now]

IdleAnalyse ==
  [pc |-> "idle", logs |-> <<>>, freq |-> <<>>, tops |-> <<>>, idx |-> 1,
   results |-> <<>>, emptyAtStart |-> TRUE]

ParkAnalyse ==
  /\ cgStore = <<>>
  /\ an = IdleAnalyse
  /\ anCalls = 0

\* analyse(chatLogs) up to the early exits: the TypeError on empty logs,
\* the frequency map, [] when it is empty.
Analyse(chatLogs) ==
  LET freq == CountConversations(<<>>, chatLogs)
  IN /\ an.pc = "idle"
     /\ anCalls' = anCalls + 1
     /\ an' = [IdleAnalyse EXCEPT
          !.pc = IF chatLogs = <<>> THEN "threw"
                 ELSE IF freq = <<>> THEN "done" ELSE "lookup",
          !.logs = chatLogs,
          !.freq = freq,
          !.emptyAtStart = (cgStore = <<>>)]
     /\ UNCHANGED <<cgStore, priVars, gapVars, vsVars, clVars, fnVars>>

\* One mapper call of pMap settles: embedText, then vectorStore.query(vector, 1).
\* top is <<>> (no document) or <<score>>.
EmbedAndQuery(top) ==
  /\ an.pc = "lookup"
  /\ an' = [an EXCEPT !.tops = Append(@, top),
                      !.pc = IF Len(an.tops) + 1 = Len(an.freq) THEN "gaps" ELSE "lookup"]
  /\ UNCHANGED <<cgStore, anCalls, priVars, gapVars, vsVars, clVars, fnVars>>

\* embedText or the query rejects: pMap rejects, and analyse with it.
EmbedFails ==
  /\ an.pc = "lookup"
  /\ an' = [an EXCEPT !.pc = "threw"]
  /\ UNCHANGED <<cgStore, anCalls, priVars, gapVars, vsVars, clVars, fnVars>>

Similarity(top) == IF top = <<>> THEN 0 ELSE top[1]

\* `if (similarity >= SIMILARITY_THRESHOLD) continue;`
SkipCovered ==
  /\ an.pc = "gaps"
  /\ an.idx <= Len(an.freq)
  /\ Similarity(an.tops[an.idx]) >= SIMILARITY_THRESHOLD
  /\ an' = [an EXCEPT !.idx = @ + 1]
  /\ UNCHANGED <<cgStore, anCalls, priVars, gapVars, vsVars, clVars, fnVars>>

\* The rest of the loop body: callLLM, the gap object, store.get, store.upsert.
SuggestGap(outcome) ==
  LET gapObj == GapObject(cgStore, an.freq[an.idx], outcome, anCalls)
  IN /\ an.pc = "gaps"
     /\ an.idx <= Len(an.freq)
     /\ Similarity(an.tops[an.idx]) < SIMILARITY_THRESHOLD
     /\ cgStore' = StoreUpsert(cgStore, gapObj)
     /\ an' = [an EXCEPT !.idx = @ + 1, !.results = Append(@, gapObj)]
     /\ UNCHANGED <<anCalls, priVars, gapVars, vsVars, clVars, fnVars>>

\* `await this.store.get(gapId)` or `await this.store.upsert(gapId, gapObj)`
\* rejects (a persistence error): analyse throws out of the loop.  What the
\* earlier iterations upserted stays in the store.
StoreCallFails ==
  /\ an.pc = "gaps"
  /\ an.idx <= Len(an.freq)
  /\ Similarity(an.tops[an.idx]) < SIMILARITY_THRESHOLD
  /\ an' = [an EXCEPT !.pc = "threw"]
  /\ UNCHANGED <<cgStore, anCalls, priVars, gapVars, vsVars, clVars, fnVars>>

\* gapResults.sort((a, b) => b.priority - a.priority); return gapResults
FinishAnalyse ==
  /\ an.pc = "gaps"
  /\ an.idx > Len(an.freq)
  /\ an' = [an EXCEPT !.pc = "done", !.results = SortByPriority(@)]
  /\ UNCHANGED <<cgStore, anCalls, priVars, gapVars, vsVars, clVars, fnVars>>

NextAnalyse ==
  \/ \E chatLogs \in ChatLogs : Analyse(chatLogs)
  \/ \E top \in {<<>>, <<10>>, <<30>>, <<90>>} : EmbedAndQuery(top)
  \/ EmbedFails
  \/ SkipCovered
  \/ \E outcome \in LlmOutcomes : SuggestGap(outcome)
  \/ StoreCallFails
  \/ FinishAnalyse

(***************************************************************************)
(* FileVectorStore (ContentGapStore has the same _load, _persist and       *)
(* write queue)                                                            *)
(*                                                                         *)
(* The in-memory store object is an ordered list of [key, vector,          *)
(* metadata]; its JSON text is the list of entries <<key, vector,          *)
(* metadata>>.                                                             *)
(***************************************************************************)
\* Page ids are opaque strings.  Upserts use PageIds; OtherPageId is never
\* upserted.  "constructor" is also the name of a property every plain
\* object inherits from Object.prototype.
PageIds == {"k1", "constructor"}
OtherPageId == "k2"
ObjectPrototypeNames == {"constructor"}
Values == { [vector |-> <<1, 0>>, metadata |-> "m1"],
            [vector |-> <<0, 1>>, metadata |-> "m2"] }

VsAbsent == [state |-> "absent", text |-> <<>>]
VsPartial == [state |-> "partial", text |-> <<>>]
VsWhole(text) == [state |-> "whole", text |-> text]

\* JSON.stringify(this._cache, null, 2)
VsStringify(obj) ==
  [i \in 1..Len(obj) |-> <<obj[i].key, obj[i].vector, obj[i].metadata>>]

\* JSON.parse(raw)
VsParse(text) ==
  [i \in 1..Len(text) |->
     [key |-> text[i][1], vector |-> text[i][2], metadata |-> text[i][3]]]

VsLoaded(obj) == [ok |-> TRUE, obj |-> obj]
VsLoadThrew == [ok |-> FALSE, obj |-> <<>>]

\* The try/catch of _load on what fs.readFile found: the parsed text, {} on
\* ENOENT, the error rethrown otherwise.
VsRead(raw) ==
  IF raw.state = "absent" THEN VsLoaded(<<>>)
  ELSE IF raw.state = "partial" THEN VsLoadThrew
  ELSE VsLoaded(VsParse(raw.text))

KeyIndex(obj, key) ==
  IF \E i \in 1..Len(obj) : obj[i].key = key
    THEN CHOOSE i \in 1..Len(obj) : obj[i].key = key
    ELSE 0

\* store[pageId] = { vector, metadata }
Put(obj, key, vector, metadata) ==
  LET i == KeyIndex(obj, key)
      rec == [key |-> key, vector |-> vector, metadata |-> metadata]
  IN IF i = 0 THEN Append(obj, rec) ELSE [obj EXCEPT ![i] = rec]

\* What get(pageId) returns: null, { vector, metadata }, or an object whose
\* vector and metadata are both undefined.
NotFound == [found |-> FALSE, defined |-> FALSE, vector |-> <<>>, metadata |-> ""]
Found(vector, metadata) ==
  [found |-> TRUE, defined |-> TRUE, vector |-> vector, metadata |-> metadata]
FoundUndefined == [found |-> TRUE, defined |-> FALSE, vector |-> <<>>, metadata |-> ""]

\* `rec = store[pageId]; return rec ? { vector: rec.vector, metadata:
\* rec.metadata } : null` on a loaded store: an own property is a record;
\* failing that the lookup goes on to Object.prototype, whose members are
\* truthy and have neither a vector nor a metadata property.
GetFrom(obj, key) ==
  LET i == KeyIndex(obj, key)
  IN IF i # 0 THEN Found(obj[i].vector, obj[i].metadata)
     ELSE IF key \in ObjectPrototypeNames THEN FoundUndefined
     ELSE NotFound

\* Promises of the write queue: null, `next` of a call, or
\* `next.finally(...)` of a call.
NullRef == [kind |-> "null", c |-> 0]
NextRef(c) == [kind |-> "next", c |-> c]
FinallyRef(c) == [kind |-> "finally", c |-> c]

Calls == 1..MaxCalls
NewCall ==
  [pc |-> "new", key |-> "k1", vector |-> <<>>, metadata |-> "",
   store |-> 0, raw |-> VsAbsent, pred |-> NullRef, payload |-> <<>>]

InFlight(c) == vsCalls[c].pc \notin {"new", "resolved", "rejected", "lost"}
Writing(c) == vsCalls[c].pc \in {"mkdir", "writing", "renaming"}
Settled(c) == vsCalls[c].pc \in {"resolved", "rejected"}

\* A call that has returned, or was lost with its process: only its
\* arguments and its outcome are kept.
Ended(call, outcome) ==
  [NewCall EXCEPT !.pc = outcome, !.key = call.key,
                  !.vector = call.vector, !.metadata = call.metadata]

ParkStore ==
  /\ vsFile = VsAbsent
  /\ vsTemp = [c \in Calls |-> VsAbsent]
  /\ vsObjs = <<>>
  /\ vsCache = 0
  /\ vsPending = NullRef
  /\ vsCalls = [c \in Calls |-> NewCall]
  /\ vsIssued = 0

\* upsert(pageId, vector, metadata) up to `await this._load()`: with the
\* cache set _load returns it, else it starts fs.readFile.
Upsert(c, key, value) ==
  /\ c = vsIssued + 1
  /\ c <= MaxCalls
  /\ vsIssued' = c
  /\ vsCalls' = [vsCalls EXCEPT ![c] = [NewCall EXCEPT
       !.pc = IF vsCache # 0 THEN "loaded" ELSE "reading",
       !.key = key, !.vector = value.vector, !.metadata = value.metadata,
       !.store = vsCache]]
  /\ UNCHANGED <<vsFile, vsTemp, vsObjs, vsCache, vsPending, priVars, gapVars, anVars, clVars, fnVars>>

\* fs.readFile settles with what the file holds now.
ReadFile(c) ==
  /\ vsCalls[c].pc = "reading"
  /\ vsCalls' = [vsCalls EXCEPT ![c].pc = "read", ![c].raw = vsFile]
  /\ UNCHANGED <<vsFile, vsTemp, vsObjs, vsCache, vsPending, vsIssued, priVars, gapVars, anVars, clVars, fnVars>>

\* The rest of _load: `this._cache = JSON.parse(raw)` (or {}), a new object
\* each time; `return this._cache`.
AssignCache(c) ==
  LET ld == VsRead(vsCalls[c].raw)
  IN /\ vsCalls[c].pc = "read"
     /\ IF ld.ok
          THEN /\ vsObjs' = Append(vsObjs, ld.obj)
               /\ vsCache' = Len(vsObjs) + 1
               /\ vsCalls' = [vsCalls EXCEPT ![c].pc = "loaded", ![c].store = Len(vsObjs) + 1]
          ELSE /\ vsCalls' = [vsCalls EXCEPT ![c] = Ended(@, "rejected")]
               /\ UNCHANGED <<vsObjs, vsCache>>
     /\ UNCHANGED <<vsFile, vsTemp, vsPending, vsIssued, priVars, gapVars, anVars, clVars, fnVars>>

\* Mutant of PendingOrResolved: every write is chained off a resolved promise.
AlwaysResolved(pending) == NullRef

\* `this._pending ?? Promise.resolve()`; NullRef stands for the resolved promise.
PendingOrResolved(pending) == pending

\* `store[pageId] = { vector, metadata }`, then _persist() up to its return:
\* next = pending.then(performWrite, performWrite); this._pending = next.finally(...)
Mutate(c) ==
  LET call == vsCalls[c]
  IN /\ call.pc = "loaded"
     /\ vsObjs' = [vsObjs EXCEPT ![call.store] = Put(@, call.key, call.vector, call.metadata)]
     /\ vsCalls' = [vsCalls EXCEPT ![c].pc = "queued", ![c].pred = PendingOrResolved(vsPending)]
     /\ vsPending' = FinallyRef(c)
     /\ UNCHANGED <<vsFile, vsTemp, vsCache, vsIssued, priVars, gapVars, anVars, clVars, fnVars>>

\* A promise of the queue is settled: the resolved promise, or the
\* `finally` promise of a write that has fulfilled or rejected.
RefSettled(ref) == IF ref.kind = "null" THEN TRUE ELSE Settled(ref.c)

\* performWrite starts once the promise it was chained off has settled,
\* fulfilled or rejected: `await fs.mkdir(dir, { recursive: true })`.
StartWrite(c) ==
  /\ vsCalls[c].pc = "queued"
  /\ RefSettled(vsCalls[c].pred)
  /\ vsCalls' = [vsCalls EXCEPT ![c].pc = "mkdir"]
  /\ UNCHANGED <<vsFile, vsTemp, vsObjs, vsCache, vsPending, vsIssued, priVars, gapVars, anVars, clVars, fnVars>>

\* Mutant of WritePath: the payload is written over the target itself.
WritePathIsTarget == "target"

\* The path fs.writeFile is given: tempPath.
WritePath == "temp"

\* mkdir resolves; fs.writeFile(tempPath, JSON.stringify(this._cache, null, 2))
\* opens the file, truncated, and starts to write.
MkdirDone(c) ==
  /\ vsCalls[c].pc = "mkdir"
  /\ vsCalls' = [vsCalls EXCEPT ![c].pc = "writing",
                                ![c].payload = VsStringify(vsObjs[vsCache])]
  /\ IF WritePath = "temp"
       THEN vsTemp' = [vsTemp EXCEPT ![c] = VsPartial] /\ UNCHANGED vsFile
       ELSE vsFile' = VsPartial /\ UNCHANGED vsTemp
  /\ UNCHANGED <<vsObjs, vsCache, vsPending, vsIssued, priVars, gapVars, anVars, clVars, fnVars>>

\* fs.writeFile resolves: the payload is in the file; fs.rename is called.
WriteFileDone(c) ==
  /\ vsCalls[c].pc = "writing"
  /\ vsCalls' = [vsCalls EXCEPT ![c].pc = "renaming"]
  /\ IF WritePath = "temp"
       THEN vsTemp' = [vsTemp EXCEPT ![c] = VsWhole(vsCalls[c].payload)] /\ UNCHANGED vsFile
       ELSE vsFile' = VsWhole(vsCalls[c].payload) /\ UNCHANGED vsTemp
  /\ UNCHANGED <<vsObjs, vsCache, vsPending, vsIssued, priVars, gapVars, anVars, clVars, fnVars>>

\* The callback of next.finally: `if (this._pending === next) this._pending = null`
AfterFinally(c) == IF vsPending = NextRef(c) THEN NullRef ELSE vsPending

\* fs.rename(tempPath, this.filename) replaces the target in one step; next
\* fulfils, its finally callback runs, upsert resolves.
RenameDone(c) ==
  /\ vsCalls[c].pc = "renaming"
  /\ IF WritePath = "temp"
       THEN vsFile' = vsTemp[c] /\ vsTemp' = [vsTemp EXCEPT ![c] = VsAbsent]
       ELSE UNCHANGED <<vsFile, vsTemp>>
  /\ vsCalls' = [vsCalls EXCEPT ![c] = Ended(@, "resolved")]
  /\ vsPending' = AfterFinally(c)
  /\ UNCHANGED <<vsObjs, vsCache, vsIssued, priVars, gapVars, anVars, clVars, fnVars>>

\* mkdir, writeFile or rename fails: next rejects, its finally callback
\* runs, upsert rejects.  What the failed step left on disk stays.
IoError(c) ==
  /\ Writing(c)
  /\ vsCalls' = [vsCalls EXCEPT ![c] = Ended(@, "rejected")]
  /\ vsPending' = AfterFinally(c)
  /\ UNCHANGED <<vsFile, vsTemp, vsObjs, vsCache, vsIssued, priVars, gapVars, anVars, clVars, fnVars>>

\* The write of call c fails while nothing is chained off
\* `next.finally(...)`, the promise kept in this._pending: that promise
\* rejects and has no handler.  A runtime that raises an unhandled rejection
\* as an uncaught exception (Node.js from version 15 on, by default) ends the
\* process after upsert has rejected; a runtime that only warns goes on as
\* in IoError(c).
UnhandledRejection(c) ==
  /\ Writing(c)
  /\ vsPending = FinallyRef(c)
  /\ vsCalls' = [d \in Calls |->
       IF d = c THEN Ended(vsCalls[c], "rejected")
       ELSE IF InFlight(d) THEN Ended(vsCalls[d], "lost") ELSE vsCalls[d]]
  /\ vsObjs' = <<>>
  /\ vsCache' = 0
  /\ vsPending' = NullRef
  /\ UNCHANGED <<vsFile, vsTemp, vsIssued, priVars, gapVars, anVars, clVars, fnVars>>

\* The process ends (a crash, or a restart between calls): the calls in
\* flight are lost with the memory of the instance; the disk stays.  The
\* next call is served by a fresh instance.
Restart ==
  /\ vsCache # 0 \/ \E c \in Calls : InFlight(c)
  /\ vsCalls' = [c \in Calls |->
       IF InFlight(c) THEN Ended(vsCalls[c], "lost") ELSE vsCalls[c]]
  /\ vsObjs' = <<>>
  /\ vsCache' = 0
  /\ vsPending' = NullRef
  /\ UNCHANGED <<vsFile, vsTemp, vsIssued, priVars, gapVars, anVars, clVars, fnVars>>

NoCallInFlight == \A c \in Calls : ~InFlight(c)

NextStore ==
  \/ \E c \in Calls, key \in PageIds, value \in Values : Upsert(c, key, value)
  \/ \E c \in Calls : ReadFile(c)
  \/ \E c \in Calls : AssignCache(c)
  \/ \E c \in Calls : Mutate(c)
  \/ \E c \in Calls : StartWrite(c)
  \/ \E c \in Calls : MkdirDone(c)
  \/ \E c \in Calls : WriteFileDone(c)
  \/ \E c \in Calls : RenameDone(c)
  \/ \E c \in Calls : IoError(c)
  \/ \E c \in Calls : UnhandledRejection(c)
  \/ Restart

\* Awaited calls: a call is issued, and the process restarted, only when no
\* call is in flight; no I/O error.
NextStoreSeq ==
  \/ \E c \in Calls, key \in PageIds, value \in Values : NoCallInFlight /\ Upsert(c, key, value)
  \/ \E c \in Calls : ReadFile(c)
  \/ \E c \in Calls : AssignCache(c)
  \/ \E c \in Calls : Mutate(c)
  \/ \E c \in Calls : StartWrite(c)
  \/ \E c \in Calls : MkdirDone(c)
  \/ \E c \in Calls : WriteFileDone(c)
  \/ \E c \in Calls : RenameDone(c)
  \/ NoCallInFlight /\ Restart

(***************************************************************************)
(* clusterQuestions                                                        *)
(*                                                                         *)
(* Embeddings are vectors of integers; a centroid is a vector of fractions *)
(* <<numerator, denominator>> in lowest terms, so the arithmetic of the    *)
(* centroid update is exact.                                               *)
(***************************************************************************)
RECURSIVE GCD(_, _)
GCD(a, b) == IF b = 0 THEN a ELSE GCD(b, a % b)
Abs(x) == IF x < 0 THEN -x ELSE x

Reduce(f) ==
  LET g == GCD(Abs(f[1]), f[2])
  IN <<f[1] \div g, f[2] \div g>>

\* vec.slice(): the centroid of a new singleton cluster
FracVector(vec) == [d \in 1..Len(vec) |-> <<vec[d], 1>>]

\* Mutant of IncrementalMean: the old centroid is weighted with n, not n - 1.
IncrementalMeanOverweights(c, n, v) == Reduce(<<c[1] * n + v * c[2], c[2] * n>>)

\* ((cluster.centroid[d] * (n - 1)) + vec[d]) / n
IncrementalMean(c, n, v) == Reduce(<<c[1] * (n - 1) + v * c[2], c[2] * n>>)

RECURSIVE Denominators(_)
Denominators(c) == IF c = <<>> THEN 1 ELSE c[1][2] * Denominators(Tail(c))

\* The centroid scaled by the product of its denominators: an integer vector
\* of the same direction.
Scaled(c) == [d \in 1..Len(c) |-> c[d][1] * (Denominators(c) \div c[d][2])]

RECURSIVE Dot(_, _)
Dot(a, b) == IF a = <<>> THEN 0 ELSE a[1] * b[1] + Dot(Tail(a), Tail(b))

\* cosineSimilarity(a, b) >= pct / 100 for integer vectors of one length and
\* pct > 0: with denom = 0 the similarity is 0; else dot / (sqrt(magA) *
\* sqrt(magB)) is compared through its square.
CosineAtLeast(a, b, pct) ==
  LET dot == Dot(a, b)
      magA == Dot(a, a)
      magB == Dot(b, b)
  IN /\ magA # 0 /\ magB # 0
     /\ dot > 0
     /\ dot * dot * 10000 >= pct * pct * magA * magB

ClusterSimilarityThreshold == 85
BATCH_SIZE == 128

\* The questions of the logs, by text, and the embedding service, a
\* deterministic function of the text.
QText1 == <<"a", "?">>
QText2 == <<"a", "b", "?">>
QText3 == <<"b", "?">>
QTexts == {QText1, QText2, QText3}
EmbeddingOf(text) ==
  IF text = QText1 THEN <<1, 0>>
  ELSE IF text = QText2 THEN <<2, 1>>
  ELSE <<1, 1>>

\* Question lists: every list of one to MaxQuestions questions, and a burst
\* of BurstLen questions.
QuestionLists ==
  (SeqsUpTo(QTexts, MaxQuestions) \ {<<>>}) \cup {[i \in 1..BurstLen |-> QText1]}

IdleCluster ==
  [pc |-> "idle", questions |-> <<>>, start |-> 1, inflight |-> {},
   results |-> <<>>, embeds |-> <<>>, i |-> 1, clusters |-> <<>>,
   issued |-> 0, failed |-> FALSE, outOfOrder |-> FALSE]

ParkCluster == cq = IdleCluster

BatchEnd(start, n) == Min(start + BATCH_SIZE - 1, n)

\* clusterQuestions(questions, 0.85), called by a run that extracted at
\* least one question: `embeds = new Array(questions.length)`.
ClusterQuestions(questions) ==
  /\ cq.pc = "idle"
  /\ cq' = [IdleCluster EXCEPT
       !.pc = "batch", !.questions = questions,
       !.results = [j \in 1..Len(questions) |-> <<>>],
       !.embeds = [j \in 1..Len(questions) |-> <<>>]]
  /\ UNCHANGED <<priVars, gapVars, anVars, vsVars, fnVars>>

\* One turn of the batch loop: `slice.map((q) => embedText(q.text))` issues
\* the call of every question of the slice at once; Promise.all awaits them.
StartBatch ==
  /\ cq.pc = "batch"
  /\ cq.start <= Len(cq.questions)
  /\ cq' = [cq EXCEPT
       !.pc = "await",
       !.inflight = cq.start .. BatchEnd(cq.start, Len(cq.questions)),
       !.issued = @ + (BatchEnd(cq.start, Len(cq.questions)) - cq.start + 1)]
  /\ UNCHANGED <<priVars, gapVars, anVars, vsVars, fnVars>>

\* Mutant of ResultIndex: results are kept in the order the calls complete.
CompletionIndex(j, results) ==
  1 + Cardinality({k \in 1..Len(results) : results[k] # <<>>})

\* Promise.all keeps the value of a promise at the position of the promise.
ResultIndex(j, results) == j

\* An embedText call resolves.  After the run has thrown nobody reads it.
EmbedResolves(j) ==
  /\ j \in cq.inflight
  /\ cq' = IF cq.pc = "await"
       THEN [cq EXCEPT
              !.inflight = @ \ {j},
              !.results[ResultIndex(j, cq.results)] = <<EmbeddingOf(cq.questions[j])>>,
              !.outOfOrder = @ \/ \E k \in cq.inflight : k < j]
       ELSE [cq EXCEPT !.inflight = @ \ {j}]
  /\ UNCHANGED <<priVars, gapVars, anVars, vsVars, fnVars>>

\* Mutant of OnEmbedFailure: the failed call is skipped and the run goes on.
SkipFailedEmbed(run, j) ==
  [run EXCEPT !.failed = TRUE, !.results[j] = <<EmbeddingOf(run.questions[j])>>]

\* Promise.all rejects with the first rejection; neither clusterQuestions
\* nor runContentGapAnalysis catches it: the run throws.
OnEmbedFailure(run, j) == [run EXCEPT !.failed = TRUE, !.pc = "threw"]

\* An embedText call rejects.
EmbedRejects(j) ==
  /\ j \in cq.inflight
  /\ cq' = IF cq.pc = "await"
       THEN [OnEmbedFailure(cq, j) EXCEPT !.inflight = @ \ {j}]
       ELSE [cq EXCEPT !.inflight = @ \ {j}]
  /\ UNCHANGED <<priVars, gapVars, anVars, vsVars, fnVars>>

\* Promise.all resolves: `embeds[start + i] = results[i]`, next batch.
BatchDone ==
  /\ cq.pc = "await"
  /\ cq.inflight = {}
  /\ cq' = [cq EXCEPT
       !.pc = "batch",
       !.embeds = [j \in 1..Len(cq.embeds) |->
          IF j >= cq.start /\ j <= BatchEnd(cq.start, Len(cq.questions))
            THEN cq.results[j] ELSE cq.embeds[j]],
       !.start = @ + BATCH_SIZE]
  /\ UNCHANGED <<priVars, gapVars, anVars, vsVars, fnVars>>

\* Mutant of FirstMatch: the last cluster above the threshold is taken.
LastMatch(vec, clusters) ==
  LET hits == {k \in 1..Len(clusters) :
                 CosineAtLeast(vec, Scaled(clusters[k].centroid), ClusterSimilarityThreshold)}
  IN IF hits = {} THEN 0 ELSE CHOOSE k \in hits : \A h \in hits : h <= k

\* `for (const cluster of clusters) { if (sim >= similarityThreshold) { ...
\* break; } }`: the index of the first cluster above the threshold, 0 if none.
FirstMatch(vec, clusters) ==
  LET hits == {k \in 1..Len(clusters) :
                 CosineAtLeast(vec, Scaled(clusters[k].centroid), ClusterSimilarityThreshold)}
  IN IF hits = {} THEN 0 ELSE CHOOSE k \in hits : \A h \in hits : k <= h

\* One turn of the clustering loop on question i with vector vec: push it
\* to the matching cluster and update the centroid, or push a new cluster.
AssignStep(clusters, i, vec) ==
  LET k == FirstMatch(vec, clusters)
  IN IF k = 0
       THEN Append(clusters, [centroid |-> FracVector(vec), questions |-> <<i>>])
       ELSE [clusters EXCEPT ![k] =
              [centroid |-> [d \in 1..Len(vec) |->
                               IncrementalMean(clusters[k].centroid[d],
                                               Len(clusters[k].questions) + 1, vec[d])],
               questions |-> Append(clusters[k].questions, i)]]

\* After the last batch the clustering loop starts; one question per step.
Assign ==
  /\ cq.pc = "batch"
  /\ cq.start > Len(cq.questions)
  /\ cq.i <= Len(cq.questions)
  /\ cq' = [cq EXCEPT
       !.clusters = AssignStep(cq.clusters, cq.i, cq.embeds[cq.i][1]),
       !.i = @ + 1]
  /\ UNCHANGED <<priVars, gapVars, anVars, vsVars, fnVars>>

\* The shortest text of a cluster, the first of them on a tie (stable sort).
TopicOf(questions, members) ==
  LET best == CHOOSE m \in 1..Len(members) :
        /\ \A o \in 1..Len(members) :
             Len(questions[members[m]]) <= Len(questions[members[o]])
        /\ \A o \in 1..(m - 1) :
             Len(questions[members[o]]) > Len(questions[members[m]])
  IN questions[members[best]]

\* Step 3 and the return: every cluster gets its topic.
FinishClustering ==
  /\ cq.pc = "batch"
  /\ cq.start > Len(cq.questions)
  /\ cq.i > Len(cq.questions)
  /\ cq' = [cq EXCEPT
       !.pc = "done",
       !.clusters = [k \in 1..Len(cq.clusters) |->
          [centroid |-> cq.clusters[k].centroid,
           questions |-> cq.clusters[k].questions,
           topic |-> TopicOf(cq.questions, cq.clusters[k].questions)]]]
  /\ UNCHANGED <<priVars, gapVars, anVars, vsVars, fnVars>>

NextCluster ==
  \/ \E questions \in QuestionLists : ClusterQuestions(questions)
  \/ StartBatch
  \/ \E j \in 1..BurstLen : EmbedResolves(j)
  \/ \E j \in 1..BurstLen : EmbedRejects(j)
  \/ BatchDone
  \/ Assign
  \/ FinishClustering

(***************************************************************************)
(* Numbers of the JavaScript runtime: IEEE 754 binary64                    *)
(*                                                                         *)
(* A double is [sign, m, e]: sign * m * 2^e with 2^52 <= m < 2^53, or      *)
(* DoubleZero.  The mantissa is a natural number written as its limbs in   *)
(* base 2^15, least significant first.  Math.sqrt, * and / return the      *)
(* double nearest to the exact result, ties to the even mantissa; the      *)
(* values of the model stay far from overflow and from subnormals.         *)
(***************************************************************************)
LimbBits == 15
LimbBase == 32768
MantissaBits == 53

RECURSIVE BNorm(_)
BNorm(a) == IF a = <<>> THEN <<>>
            ELSE IF a[Len(a)] = 0 THEN BNorm(SubSeq(a, 1, Len(a) - 1)) ELSE a

RECURSIVE BAddCarry(_, _, _)
BAddCarry(a, b, carry) ==
  IF a = <<>> /\ b = <<>> THEN (IF carry = 0 THEN <<>> ELSE <<carry>>)
  ELSE LET x == IF a = <<>> THEN 0 ELSE a[1]
           y == IF b = <<>> THEN 0 ELSE b[1]
           t == x + y + carry
       IN <<t % LimbBase>> \o BAddCarry(IF a = <<>> THEN <<>> ELSE Tail(a),
                                        IF b = <<>> THEN <<>> ELSE Tail(b),
                                        t \div LimbBase)

BAdd(a, b) == BAddCarry(a, b, 0)

RECURSIVE BMulSmall(_, _, _)
BMulSmall(a, k, carry) ==
  IF a = <<>> THEN (IF carry = 0 THEN <<>> ELSE <<carry>>)
  ELSE LET t == a[1] * k + carry
       IN <<t % LimbBase>> \o BMulSmall(Tail(a), k, t \div LimbBase)

RECURSIVE BMul(_, _)
BMul(a, b) == IF b = <<>> \/ a = <<>> THEN <<>>
              ELSE BNorm(BAdd(BMulSmall(a, b[1], 0), <<0>> \o BMul(a, Tail(b))))

RECURSIVE BCmpFrom(_, _, _)
BCmpFrom(a, b, i) == IF i = 0 THEN 0
                     ELSE IF a[i] < b[i] THEN -1
                     ELSE IF a[i] > b[i] THEN 1
                     ELSE BCmpFrom(a, b, i - 1)

BCmp(a, b) == IF Len(a) < Len(b) THEN -1
              ELSE IF Len(a) > Len(b) THEN 1
              ELSE BCmpFrom(a, b, Len(a))

BLeq(a, b) == BCmp(a, b) <= 0

RECURSIVE SmallPow2(_)
SmallPow2(n) == IF n = 0 THEN 1 ELSE 2 * SmallPow2(n - 1)

BPow2(n) == [i \in 1..(n \div LimbBits) |-> 0] \o <<SmallPow2(n % LimbBits)>>

BShl(a, n) == IF a = <<>> THEN <<>>
              ELSE [i \in 1..(n \div LimbBits) |-> 0] \o BMulSmall(a, SmallPow2(n % LimbBits), 0)

RECURSIVE BFromInt(_)
BFromInt(n) == IF n = 0 THEN <<>> ELSE <<n % LimbBase>> \o BFromInt(n \div LimbBase)

BIsOdd(a) == a # <<>> /\ a[1] % 2 = 1

\* floor(num / den), for a quotient below 2^(bit+1)
RECURSIVE BDivBits(_, _, _, _)
BDivBits(num, den, q, bit) ==
  IF bit < 0 THEN q
  ELSE IF BLeq(BMul(BAdd(q, BPow2(bit)), den), num)
       THEN BDivBits(num, den, BAdd(q, BPow2(bit)), bit - 1)
       ELSE BDivBits(num, den, q, bit - 1)

\* floor(sqrt(n)), for a root below 2^(bit+1)
RECURSIVE BSqrtBits(_, _, _)
BSqrtBits(n, r, bit) ==
  IF bit < 0 THEN r
  ELSE IF BLeq(BMul(BAdd(r, BPow2(bit)), BAdd(r, BPow2(bit))), n)
       THEN BSqrtBits(n, BAdd(r, BPow2(bit)), bit - 1)
       ELSE BSqrtBits(n, r, bit - 1)

\* num / den rounded to the nearest integer, a tie to the even one
BDivRound(num, den) ==
  LET q == BDivBits(num, den, <<>>, MantissaBits)
      c == BCmp(BMulSmall(num, 2, 0), BMul(BAdd(BMulSmall(q, 2, 0), <<1>>), den))
  IN IF c > 0 \/ (c = 0 /\ BIsOdd(q)) THEN BAdd(q, <<1>>) ELSE q

DoubleZero == [sign |-> 0, m |-> <<>>, e |-> 0]

\* A mantissa that rounding carried up to 2^53 is renormalised.
Normalised(sign, m, e) ==
  IF m = BPow2(MantissaBits)
  THEN [sign |-> sign, m |-> BPow2(MantissaBits - 1), e |-> e + 1]
  ELSE [sign |-> sign, m |-> m, e |-> e]

\* num * 2^k >= den * 2^52, for any integer k
Reaches(num, den, k) ==
  IF k >= 0 THEN BLeq(BShl(den, MantissaBits - 1), BShl(num, k))
  ELSE BLeq(BShl(den, MantissaBits - 1 - k), num)

\* The smallest k, from k on, that makes num * 2^k / den a 53-bit number.
RECURSIVE ShiftFor(_, _, _)
ShiftFor(num, den, k) == IF Reaches(num, den, k) THEN k ELSE ShiftFor(num, den, k + 1)

\* The double nearest to sign * (num / den) * 2^e, num and den positive.
Nearest(sign, num, den, e) ==
  LET k == ShiftFor(num, den, LimbBits * (Len(den) - Len(num)) + MantissaBits - LimbBits - 1)
      m == IF k >= 0 THEN BDivRound(BShl(num, k), den) ELSE BDivRound(num, BShl(den, -k))
  IN Normalised(sign, m, e - k)

Sign(x) == IF x < 0 THEN -1 ELSE IF x = 0 THEN 0 ELSE 1

\* An integer of the model as a double: exact.
DoubleOf(n) == IF n = 0 THEN DoubleZero ELSE Nearest(Sign(n), BFromInt(Abs(n)), <<1>>, 0)

RECURSIVE RootShift(_, _)
RootShift(n, s) == IF BLeq(BPow2(2 * MantissaBits - 2), BShl(n, 2 * s)) THEN s
                   ELSE RootShift(n, s + 1)

\* Math.sqrt(n) for an integer n >= 0: the root of n * 4^s, rounded.  The
\* root of an integer is never halfway between two doubles.
MathSqrt(n) ==
  IF n = 0 THEN DoubleZero
  ELSE LET s == RootShift(BFromInt(n), 0)
           N == BShl(BFromInt(n), 2 * s)
           r == BSqrtBits(N, <<>>, MantissaBits - 1)
           half == BAdd(BMulSmall(r, 2, 0), <<1>>)
       IN Normalised(1, IF BLeq(BMul(half, half), BMulSmall(N, 4, 0)) THEN BAdd(r, <<1>>) ELSE r, -s)

\* x * y
DoubleTimes(x, y) ==
  IF x.sign = 0 \/ y.sign = 0 THEN DoubleZero
  ELSE Nearest(x.sign * y.sign, BMul(x.m, y.m), <<1>>, x.e + y.e)

\* x / y, y not zero
DoubleOver(x, y) ==
  IF x.sign = 0 THEN DoubleZero
  ELSE Nearest(x.sign * y.sign, x.m, y.m, x.e - y.e)

\* -1, 0 or 1 as x < y, x = y or x > y
DoubleCompare(x, y) ==
  IF x.sign # y.sign THEN (IF x.sign < y.sign THEN -1 ELSE 1)
  ELSE IF x.sign = 0 THEN 0
  ELSE IF x.e # y.e THEN (IF x.e < y.e THEN -x.sign ELSE x.sign)
  ELSE x.sign * BCmp(x.m, y.m)

(***************************************************************************)
(* cosineSimilarity, FileVectorStore.query and detectGaps                  *)
(*                                                                         *)
(* Vectors have integer components, so dot, magA and magB are exact; the   *)
(* loaded store is the list of its entries [pageId, vector, metadata].     *)
(***************************************************************************)
MaxDocs == 2

\* cosineSimilarity(a, b) for vectors of one length
cosineSimilarity(a, b) ==
  LET denom == DoubleTimes(MathSqrt(Dot(a, a)), MathSqrt(Dot(b, b)))
  IN IF denom = DoubleZero THEN DoubleZero ELSE DoubleOver(DoubleOf(Dot(a, b)), denom)

\* results.sort((a, b) => b.score - a.score): stable, highest score first
RECURSIVE InsertByScore(_, _)
InsertByScore(sorted, x) ==
  IF sorted = <<>> THEN <<x>>
  ELSE IF DoubleCompare(sorted[1].score, x.score) < 0 THEN <<x>> \o sorted
  ELSE <<sorted[1]>> \o InsertByScore(Tail(sorted), x)

RECURSIVE SortByScore(_)
SortByScore(results) ==
  IF results = <<>> THEN <<>>
  ELSE InsertByScore(SortByScore(SubSeq(results, 1, Len(results) - 1)), results[Len(results)])

\* Object.entries(store).map(...): one result per stored record
ScoreAll(store, queryVector) ==
  [i \in 1..Len(store) |->
     [pageId |-> store[i].pageId,
      score |-> cosineSimilarity(queryVector, store[i].vector),
      metadata |-> store[i].metadata]]

\* DEFAULTS.coverageThreshold: the literal 0.8
CoverageThreshold == DoubleOver(DoubleOf(DefaultCoverageThreshold), DoubleOf(100))

\* Mutant of BelowThreshold: a best score at the threshold counts as below.
BelowOrAtThreshold(score, threshold) == DoubleCompare(score, threshold) <= 0

\* best.score < coverageThreshold
BelowThreshold(score, threshold) == DoubleCompare(score, threshold) < 0

\* !best || best.score < coverageThreshold, best = nearest[0]
NoCoverage(nearest, threshold) ==
  IF nearest = <<>> THEN TRUE ELSE BelowThreshold(nearest[1].score, threshold)

DocVectors == {<<0, 0, 0>>, <<1, 1, 1>>, <<4, 3, 0>>, <<-1, -1, -1>>}
Centroids == {<<0, 0, 0>>, <<1, 0, 0>>, <<1, 1, 1>>}
DocOf(v) == [pageId |-> v, vector |-> v, metadata |-> "page"]
DocStores == UNION {[1..n -> {DocOf(v) : v \in DocVectors}] : n \in 0..MaxDocs}
DefaultK == 5

IdleQuery == [pc |-> "idle", store |-> <<>>, centroid |-> <<0, 0, 0>>, k |-> 0,
              results |-> <<>>, nearest |-> <<>>, gap |-> FALSE]
ParkQuery == vq = IdleQuery

\* docVectorStore.query(cluster.centroid, 1), or query(vector) with the
\* default k, up to the sort
Query(k) ==
  /\ vq.pc = "idle"
  /\ vq' = [vq EXCEPT !.pc = "scored", !.k = k,
                      !.results = ScoreAll(vq.store, vq.centroid)]
  /\ UNCHANGED <<priVars, gapVars, anVars, vsVars, clVars, rd, et, xq>>

\* results.sort(...).slice(0, k)
QueryReturns ==
  /\ vq.pc = "scored"
  /\ vq' = [vq EXCEPT !.pc = "returned",
                      !.nearest = Take(SortByScore(vq.results), vq.k)]
  /\ UNCHANGED <<priVars, gapVars, anVars, vsVars, clVars, rd, et, xq>>

\* detectGaps: the test on the nearest page of one cluster
DetectGap ==
  /\ vq.pc = "returned"
  /\ vq.k = 1
  /\ vq' = [vq EXCEPT !.pc = "done", !.gap = NoCoverage(vq.nearest, CoverageThreshold)]
  /\ UNCHANGED <<priVars, gapVars, anVars, vsVars, clVars, rd, et, xq>>

NextQuery ==
  \/ \E k \in {1, DefaultK} : Query(k)
  \/ QueryReturns
  \/ DetectGap

(***************************************************************************)
(* GapAnalysisStore read by a caller that keeps what it was handed         *)
(*                                                                         *)
(* One store instance over data/gap_analysis.json (gaFile).  A handed      *)
(* object is null, or a reference: the theme record of the cache itself.   *)
(* expected is the cache as the store's own methods alone have made it.    *)
(***************************************************************************)
MaxReads == 3

NoObject == [kind |-> "none", id |-> <<>>]
NullObject == [kind |-> "null", id |-> <<>>]
\* The object store.themes[id] itself.
StoredObject(id) == [kind |-> "stored", id |-> id]

\* `return rec` of recordTheme, after `store.themes[themeId] = rec`
ReturnedByRecordTheme(id) == StoredObject(id)

\* `return store.themes[themeId] ?? null` of getTheme
ReturnedByGetTheme(themes, id) ==
  IF ThemeIndex(themes, id) = 0 THEN NullObject ELSE StoredObject(id)

\* `obj.occurrences = v` by the caller, seen from the cache
AssignOccurrences(themes, obj, v) ==
  IF obj.kind = "stored"
    THEN [themes EXCEPT ![ThemeIndex(themes, obj.id)].occurrences = v]
    ELSE themes

IdleReaders == [cache |-> NullCache, held |-> NoObject, expected |-> NullCache,
                expectedFile |-> AbsentFile, reads |-> 0]
ParkReaders == rd = IdleReaders

\* await store.recordTheme(themeId, { topic })
CallRecordTheme(id, topic) ==
  LET ld == GapLoad(rd.cache, gaFile)
      ex == GapLoad(rd.expected, rd.expectedFile)
  IN /\ rd.reads < MaxReads
     /\ ld.ok /\ ld.cache.kind = "object"
     /\ rd' = [rd EXCEPT
          !.reads = @ + 1,
          !.cache = ObjectCache(RecordInto(ld.cache.themes, id, topic, rd.reads)),
          !.expected = ObjectCache(RecordInto(ex.cache.themes, id, topic, rd.reads)),
          !.held = ReturnedByRecordTheme(id)]
     /\ UNCHANGED <<gaFile, runs, runsStarted, commits, reported, priVars, anVars, vsVars, clVars, vq, et, xq>>

\* await store.getTheme(themeId)
CallGetTheme(id) ==
  LET ld == GapLoad(rd.cache, gaFile)
      ex == GapLoad(rd.expected, rd.expectedFile)
  IN /\ rd.reads < MaxReads
     /\ ld.ok /\ ld.cache.kind = "object"
     /\ rd' = [rd EXCEPT
          !.reads = @ + 1,
          !.cache = ld.cache,
          !.expected = ex.cache,
          !.held = ReturnedByGetTheme(ld.cache.themes, id)]
     /\ UNCHANGED <<gaFile, runs, runsStarted, commits, reported, priVars, anVars, vsVars, clVars, vq, et, xq>>

\* The caller changes a top-level field of the object it holds.
CallerAssigns(v) ==
  /\ rd.held.kind = "stored"
  /\ OccIn(rd.cache.themes, rd.held.id) # v
  /\ rd' = [rd EXCEPT !.cache = ObjectCache(AssignOccurrences(rd.cache.themes, rd.held, v))]
  /\ UNCHANGED <<gaFile, runs, runsStarted, commits, reported, priVars, anVars, vsVars, clVars, vq, et, xq>>

\* await store.save(), to its end
CallSave ==
  /\ rd.cache.kind = "object"
  /\ gaFile # WholeFile(JSONstringify(rd.cache))
  /\ gaFile' = WholeFile(JSONstringify(rd.cache))
  /\ rd' = [rd EXCEPT !.expectedFile = WholeFile(JSONstringify(rd.expected))]
  /\ UNCHANGED <<runs, runsStarted, commits, reported, priVars, anVars, vsVars, clVars, vq, et, xq>>

NextReaders ==
  \/ \E id \in ThemeIds, t \in Topics : slugify(t) = id /\ CallRecordTheme(id, t)
  \/ \E id \in ThemeIds : CallGetTheme(id)
  \/ CallerAssigns(0)
  \/ CallSave

(***************************************************************************)
(* embedText                                                               *)
(*                                                                         *)
(* A text is the list of the lengths of its paragraphs, joined by single   *)
(* newlines (0 is the empty paragraph a leading or trailing newline        *)
(* gives); a chunk is a text.  A response of the embeddings API is a       *)
(* vector of integers; the returned mean is a vector of fractions in       *)
(* lowest terms.                                                           *)
(***************************************************************************)
MAX_MODEL_TOKENS == 8192
APPROX_CHARS_PER_TOKEN == 4
MAX_CHARS == MAX_MODEL_TOKENS * APPROX_CHARS_PER_TOKEN
MaxParagraphs == 2

RECURSIVE SumSeq(_)
SumSeq(s) == IF s = <<>> THEN 0 ELSE s[1] + SumSeq(Tail(s))

\* text.length
StrLen(text) == IF text = <<>> THEN 0 ELSE SumSeq(text) + Len(text) - 1

\* current.trim(): paragraphs hold no white space, so only the newlines next
\* to an empty first or last paragraph go
RECURSIVE TrimText(_)
TrimText(text) ==
  IF text = <<>> THEN <<>>
  ELSE IF text[1] = 0 THEN TrimText(Tail(text))
  ELSE IF text[Len(text)] = 0 THEN TrimText(SubSeq(text, 1, Len(text) - 1))
  ELSE text

\* for (i = 0; i < para.length; i += MAX_CHARS) chunks.push(para.slice(i, i + MAX_CHARS))
RECURSIVE HardSlices(_)
HardSlices(len) ==
  IF len <= 0 THEN <<>> ELSE <<<<Min(len, MAX_CHARS)>>>> \o HardSlices(len - MAX_CHARS)

PushIfAny(chunks, current) ==
  IF StrLen(current) > 0 THEN Append(chunks, TrimText(current)) ELSE chunks

\* The loop of chunkText over the paragraphs, and the push after it.
RECURSIVE ChunkLoop(_, _, _)
ChunkLoop(paragraphs, current, chunks) ==
  IF paragraphs = <<>> THEN PushIfAny(chunks, current)
  ELSE LET para == paragraphs[1]
           candidate == IF StrLen(current) > 0 THEN Append(current, para) ELSE <<para>>
       IN IF StrLen(candidate) > MAX_CHARS
            THEN IF para > MAX_CHARS
                   THEN ChunkLoop(Tail(paragraphs), <<>>,
                                  PushIfAny(chunks, current) \o HardSlices(para))
                   ELSE ChunkLoop(Tail(paragraphs), <<para>>, PushIfAny(chunks, current))
            ELSE ChunkLoop(Tail(paragraphs), candidate, chunks)

chunkText(text) ==
  IF StrLen(text) <= MAX_CHARS THEN <<text>> ELSE ChunkLoop(text, <<>>, <<>>)

ParagraphLengths == {0, 5, MAX_CHARS \div 2, MAX_CHARS, MAX_CHARS + 1}
\* The texts embedText accepts: `text.trim()` is not empty.
Texts == {t \in UNION {[1..n -> ParagraphLengths] : n \in 1..MaxParagraphs} :
            /\ SumSeq(t) > 0
            /\ \A i \in 2..(Len(t) - 1) : t[i] > 0}
EmbeddingResponses == {<<0, 3>>, <<1, 3>>, <<1, 1, 1>>}

\* Mutant of MeanOfSum: the sum is returned undivided.
SumUndivided(sum, count) == <<sum, 1>>

\* x / vectors.length
MeanOfSum(sum, count) == Reduce(<<sum, count>>)

\* sum[i] += vec[i] over the vectors, then sum.map((x) => x / vectors.length)
AverageOf(vectors) ==
  [d \in 1..Len(vectors[1]) |->
     MeanOfSum(SumSeq([j \in 1..Len(vectors) |-> vectors[j][d]]), Len(vectors))]

IdleEmbed == [pc |-> "idle", text |-> <<>>, chunks |-> <<>>, issued |-> 0,
              vectors |-> <<>>, result |-> <<>>]
ParkEmbed == et = IdleEmbed

\* embedText(text) up to `await Promise.all(chunks.map(embedOpenAI))`: one
\* axios.post per chunk is under way.
EmbedText(text) ==
  /\ et.pc = "idle"
  /\ et' = [IdleEmbed EXCEPT
       !.pc = "embedding",
       !.text = text,
       !.chunks = chunkText(text),
       !.issued = Len(chunkText(text)),
       !.vectors = [j \in 1..Len(chunkText(text)) |-> <<>>]]
  /\ UNCHANGED <<priVars, gapVars, anVars, vsVars, clVars, vq, rd, xq>>

\* The call for chunk j resolves with an embedding.
ChunkEmbedded(j, vec) ==
  /\ et.pc = "embedding"
  /\ et.vectors[j] = <<>>
  /\ et' = [et EXCEPT !.vectors[j] = <<vec>>]
  /\ UNCHANGED <<priVars, gapVars, anVars, vsVars, clVars, vq, rd, xq>>

\* The call for chunk j fails: Promise.all rejects and embedText throws.
ChunkFails(j) ==
  /\ et.pc = "embedding"
  /\ et.vectors[j] = <<>>
  /\ et' = [et EXCEPT !.pc = "threw"]
  /\ UNCHANGED <<priVars, gapVars, anVars, vsVars, clVars, vq, rd, xq>>

\* After Promise.all: the single vector as it is, else the dimension check
\* and the element-wise average.
EmbedTextReturns ==
  LET vectors == [j \in 1..Len(et.vectors) |-> et.vectors[j][1]]
  IN /\ et.pc = "embedding"
     /\ \A j \in 1..Len(et.vectors) : et.vectors[j] # <<>>
     /\ et' = IF Len(vectors) = 1
                THEN [et EXCEPT !.pc = "done", !.result = FracVector(vectors[1])]
              ELSE IF \E j \in 1..Len(vectors) : Len(vectors[j]) # Len(vectors[1])
                THEN [et EXCEPT !.pc = "threw"]
              ELSE [et EXCEPT !.pc = "done", !.result = AverageOf(vectors)]
     /\ UNCHANGED <<priVars, gapVars, anVars, vsVars, clVars, vq, rd, xq>>

NextEmbed ==
  \/ \E text \in Texts : EmbedText(text)
  \/ \E j \in 1..Len(et.vectors), vec \in EmbeddingResponses : ChunkEmbedded(j, vec)
  \/ \E j \in 1..Len(et.vectors) : ChunkFails(j)
  \/ EmbedTextReturns

(***************************************************************************)
(* extractQuestions                                                        *)
(*                                                                         *)
(* A message text is a list of tokens: lower-case words, " " and "?".  A   *)
(* message is a string or an object {author, text}; a conversation is a    *)
(* flat array of messages or an object {id, messages}.                     *)
(***************************************************************************)
MaxLogs == 2

Interrogatives == {"what", "how", "why", "when", "where", "is", "are", "do", "does", "can"}

RECURSIVE TrimTokens(_)
\* msg.text.trim()
TrimTokens(t) ==
  IF t = <<>> THEN <<>>
  ELSE IF t[1] = " " THEN TrimTokens(Tail(t))
  ELSE IF t[Len(t)] = " " THEN TrimTokens(SubSeq(t, 1, Len(t) - 1))
  ELSE t

\* /\?$/.test(trimmed) || /\b(what|how|...|can)\b/i.test(trimmed)
isQuestion(trimmed) ==
  \/ trimmed # <<>> /\ trimmed[Len(trimmed)] = "?"
  \/ \E i \in 1..Len(trimmed) : trimmed[i] \in Interrogatives

StringMessage(text) == [kind |-> "string", author |-> "undefined", text |-> text]
ObjectMessage(author, text) == [kind |-> "object", author |-> author, text |-> text]
ArrayConversation(messages) == [shape |-> "array", id |-> "undefined", messages |-> messages]
ObjectConversation(id, messages) == [shape |-> "object", id |-> id, messages |-> messages]

\* msg.author !== 'user' -> continue; typeof msg.text !== 'string' -> continue
\* (a string has neither an author nor a text property)
MessageRead(msg) == msg.kind = "object" /\ msg.author = "user"

RECURSIVE QuestionsOfMessages(_, _)
QuestionsOfMessages(convId, messages) ==
  IF messages = <<>> THEN <<>>
  ELSE LET msg == messages[1]
           trimmed == TrimTokens(msg.text)
       IN (IF MessageRead(msg) /\ isQuestion(trimmed)
             THEN <<[text |-> trimmed, convId |-> convId]>> ELSE <<>>)
          \o QuestionsOfMessages(convId, Tail(messages))

\* !conv || !Array.isArray(conv.messages) -> continue: an array has no
\* `messages` property
ConversationRead(conv) == conv.shape = "object"

RECURSIVE extractQuestions(_)
extractQuestions(conversations) ==
  IF conversations = <<>> THEN <<>>
  ELSE (IF ConversationRead(conversations[1])
          THEN QuestionsOfMessages(conversations[1].id, conversations[1].messages)
          ELSE <<>>)
       \o extractQuestions(Tail(conversations))

TextPlain == <<"thanks">>
TextMark == <<" ", "reset", "password", "?">>
TextOpens == <<"how", "reset", "password">>
TextInside == <<"tell", "me", "what", "happened">>
MessageTexts == {TextPlain, TextMark, TextOpens, TextInside}
LogConversations ==
  {ArrayConversation(<<StringMessage(t)>>) : t \in MessageTexts}
    \cup {ObjectConversation("c1", <<StringMessage(t)>>) : t \in MessageTexts}
    \cup {ObjectConversation("c2", <<ObjectMessage(a, t)>>) :
            a \in {"user", "assistant"}, t \in MessageTexts}
    \cup {ObjectConversation("c3", <<ObjectMessage("user", TextPlain), ObjectMessage("user", TextMark)>>)}
LogLists == UNION {[1..n -> LogConversations] : n \in 0..MaxLogs}

IdleExtract == [pc |-> "idle", conversations |-> <<>>, questions |-> <<>>]
ParkExtract == xq = IdleExtract

\* const questions = extractQuestions(conversations)
ExtractQuestions ==
  /\ xq.pc = "idle"
  /\ xq' = [xq EXCEPT !.pc = "done", !.questions = extractQuestions(xq.conversations)]
  /\ UNCHANGED <<priVars, gapVars, anVars, vsVars, clVars, vq, rd, et>>

NextExtract == ExtractQuestions

(***************************************************************************)
(* computePriority on its own, and the specifications                      *)
(***************************************************************************)
ParkFunctions == ParkQuery /\ ParkReaders /\ ParkEmbed /\ ParkExtract

ParkPriority ==
  /\ pIn = [frequency |-> 0, recurring |-> 0, maxFrequency |-> 1, weights |-> DefaultWeights]
  /\ pOut = NotCalled

\* The store before the call: empty, or as an earlier analyse() of the one
\* question QuestionX, with a failed callLLM, left it.
StoreAfterEarlierCall ==
  StoreUpsert(<<>>,
    GapObject(<<>>, CountConversations(<<>>, <<Convo("array", <<QuestionX>>)>>)[1], "fail", 1))

InitAnalyse ==
  /\ ParkStore
  /\ ParkCluster
  /\ ParkFunctions
  /\ \/ cgStore = <<>> /\ anCalls = 0
     \/ cgStore = StoreAfterEarlierCall /\ anCalls = 1
  /\ an = IdleAnalyse
  /\ ParkGap
  /\ ParkPriority

InitStore ==
  /\ ParkStore
  /\ ParkCluster
  /\ ParkFunctions
  /\ ParkGap
  /\ ParkPriority
  /\ ParkAnalyse

InitGap ==
  /\ ParkStore
  /\ ParkCluster
  /\ ParkFunctions
  /\ ParkGap
  /\ ParkPriority
  /\ ParkAnalyse

InitPriority ==
  /\ ParkStore
  /\ ParkCluster
  /\ ParkFunctions
  /\ ParkGap
  /\ ParkAnalyse
  /\ pIn \in [frequency : 0..MaxFrequencyArg, recurring : RecurringValues,
              maxFrequency : 0..MaxFrequencyArg, weights : WeightPairs]
  /\ pOut = NotCalled

InitQuery ==
  /\ ParkStore
  /\ ParkCluster
  /\ ParkGap
  /\ ParkPriority
  /\ ParkAnalyse
  /\ ParkReaders
  /\ ParkEmbed
  /\ ParkExtract
  /\ vq \in {[IdleQuery EXCEPT !.store = st, !.centroid = c] : st \in DocStores, c \in Centroids}

InitReaders ==
  /\ ParkStore
  /\ ParkCluster
  /\ ParkGap
  /\ ParkPriority
  /\ ParkAnalyse
  /\ ParkQuery
  /\ ParkEmbed
  /\ ParkExtract
  /\ rd = IdleReaders

InitEmbed ==
  /\ ParkStore
  /\ ParkCluster
  /\ ParkGap
  /\ ParkPriority
  /\ ParkAnalyse
  /\ ParkQuery
  /\ ParkReaders
  /\ ParkExtract
  /\ et = IdleEmbed

InitExtract ==
  /\ ParkStore
  /\ ParkCluster
  /\ ParkGap
  /\ ParkPriority
  /\ ParkAnalyse
  /\ ParkQuery
  /\ ParkReaders
  /\ ParkEmbed
  /\ xq \in {[IdleExtract EXCEPT !.conversations = logs] : logs \in LogLists}

CallComputePriority ==
  /\ pOut = NotCalled
  /\ pOut' = computePriority(pIn.frequency, pIn.recurring, pIn.maxFrequency, pIn.weights)
  /\ UNCHANGED <<pIn, gapVars, anVars, vsVars, clVars, fnVars>>

NextPriority == CallComputePriority

SpecPriority == InitPriority /\ [][NextPriority]_vars
SpecGap == InitGap /\ [][NextGap]_vars
SpecGapOverlap == InitGap /\ [][NextGapOverlap]_vars
SpecCluster == InitStore /\ [][NextCluster]_vars
SpecAnalyse == InitAnalyse /\ [][NextAnalyse]_vars
SpecStore == InitStore /\ [][NextStore]_vars
SpecStoreSeq == InitStore /\ [][NextStoreSeq]_vars
SpecQuery == InitQuery /\ [][NextQuery]_vars
SpecReaders == InitReaders /\ [][NextReaders]_vars
SpecEmbed == InitEmbed /\ [][NextEmbed]_vars
SpecExtract == InitExtract /\ [][NextExtract]_vars

(***************************************************************************)
(* Claims about the gap store and the orchestrator (SpecGap)               *)
(***************************************************************************)
NoRunActive == \A r \in Slots : ~Active(r)
Flagged(run, id) == \E i \in 1..Len(run.gaps) : slugify(run.gaps[i].topic) = id

OccurrencesOncePerRun ==
  \A r \in Slots : \A id \in ThemeIds :
    runs[r].pc = "done" =>
      FreshOcc(id) = runs[r].before[id] + (IF Flagged(runs[r], id) THEN 1 ELSE 0)

\* C3: the recurring term of a score is 10 times the occurrences the theme
\* had before the run, capped at 100 (0 for a theme flagged for the first
\* time).
RecurringFromPriorRuns ==
  \A r \in Slots :
    runs[r].scored =>
      runs[r].recurring = Min(100, 10 * runs[r].before[runs[r].themeId])

\* C5 as stated: a theme reported again with the same frequency,
\* maxFrequency and weights never gets a lower priority than before.
PriorityNeverDrops ==
  \A id \in ThemeIds :
    reported[id].prior # <<>> => reported[id].priority >= reported[id].prior[1]

\* C5 amended: the same, for a recurring weight that is not negative.
PriorityNeverDropsNonNegWeight ==
  \A id \in ThemeIds :
    (reported[id].prior # <<>> /\ WeightOrOne(reported[id].weights.recurring) >= 0)
      => reported[id].priority >= reported[id].prior[1]

PriorityGrowsWitness ==
  \E id \in ThemeIds :
    /\ reported[id].prior # <<>>
    /\ WeightOrOne(reported[id].weights.recurring) > 0
    /\ reported[id].priority > reported[id].prior[1]

\* C9: whatever the moment the process dies at, the gap-store file is absent
\* or a complete JSON text, never a partial one.
GapFileNeverPartial == gaFile.state # "partial"

(***************************************************************************)
(* Claims about computePriority (SpecPriority)                             *)
(***************************************************************************)
\* C4: for maxFrequency > 0, frequency >= 0, recurring in 0..100 and any
\* weights, the priority returned is in 0..100.
PriorityClamped ==
  (pOut.kind = "returned" /\ pIn.maxFrequency > 0) => pOut.value \in 0..100

(***************************************************************************)
(* Claims about the analyser (SpecAnalyse)                                 *)
(***************************************************************************)
RECURSIVE SuppliedMessages(_)
SuppliedMessages(logs) ==
  IF logs = <<>> THEN <<>>
  ELSE (IF Head(logs).shape \in {"array", "object"} THEN Head(logs).messages ELSE <<>>)
       \o SuppliedMessages(Tail(logs))

QuestionTexts(logs) ==
  LET msgs == SuppliedMessages(logs)
  IN {msgs[i] : i \in {j \in 1..Len(msgs) : endsWith(trim(msgs[j]), "?")}}

TimesAsked(logs, q) ==
  LET msgs == SuppliedMessages(logs)
  IN Cardinality({i \in 1..Len(msgs) : msgs[i] = q})

OneQuestionAsked ==
  /\ an.pc = "done"
  /\ an.emptyAtStart
  /\ Cardinality(QuestionTexts(an.logs)) = 1
  /\ \A i \in 1..Len(an.tops) : Similarity(an.tops[i]) < SIMILARITY_THRESHOLD

GetNow(key) ==
  LET ld == IF vsCache # 0 THEN VsLoaded(vsObjs[vsCache]) ELSE VsRead(vsFile)
  IN IF ld.ok THEN GetFrom(ld.obj, key) ELSE NotFound

\* get(pageId) on a fresh instance opened on the same file.
FreshGet(key) ==
  LET ld == VsRead(vsFile)
  IN IF ld.ok THEN GetFrom(ld.obj, key) ELSE NotFound

\* The most recent upsert of a key that has resolved, 0 if there is none.
LastUpsert(key) ==
  SeqMax([c \in Calls |->
            IF vsCalls[c].pc = "resolved" /\ vsCalls[c].key = key THEN c ELSE 0])

ExpectedGet(key) ==
  IF LastUpsert(key) = 0 THEN NotFound
  ELSE Found(vsCalls[LastUpsert(key)].vector, vsCalls[LastUpsert(key)].metadata)

\* C7: after any sequence of awaited upsert calls, get(k) on the running
\* instance and on a fresh instance opened on the same file both return the
\* vector and metadata of the most recent upsert of k, and null for a key
\* never upserted.
RoundTripPersistence ==
  (vsIssued > 0 /\ NoCallInFlight) =>
    \A key \in PageIds \cup {OtherPageId} :
      /\ GetNow(key) = ExpectedGet(key)
      /\ FreshGet(key) = ExpectedGet(key)

\* C8: at every point of every write, and so at every point a crash can
\* happen, the target file is absent or holds one complete payload; the
\* file about to be renamed over it is a completely written temp file.
TargetNeverPartial ==
  /\ vsFile.state \in {"absent", "whole"}
  /\ \A c \in Calls :
       vsCalls[c].pc = "renaming" => vsTemp[c] = VsWhole(vsCalls[c].payload)

\* A process died while fs.writeFile was writing the temp file of a later
\* write; the target holds the complete payload of an earlier write.
CrashMidWriteWitness ==
  \E c, d \in Calls :
    /\ vsCalls[c].pc = "resolved"
    /\ vsCalls[d].pc = "lost"
    /\ vsTemp[d].state = "partial"
    /\ vsFile.state = "whole"
    /\ vsFile.text # <<>>

\* C10: at most one performWrite of an instance is between its start and
\* its end, and the promise a running write was chained off has settled.
WritesSerialized ==
  /\ Cardinality({c \in Calls : Writing(c)}) <= 1
  /\ \A c \in Calls : Writing(c) => RefSettled(vsCalls[c].pred)

\* Two upsert calls overlap: the write of one is executing while the write
\* of the other waits in the queue behind it.
QueuedBehindWriteWitness ==
  \E c, d \in Calls :
    /\ Writing(c)
    /\ vsCalls[d].pc = "queued"
    /\ vsCalls[d].pred = FinallyRef(c)

\* C11: once two upsert calls for different keys have both resolved, both
\* keys are in the cache of the instance (when it has one) and in the file.
NoUpsertLost ==
  \A c, d \in Calls :
    (/\ vsCalls[c].pc = "resolved"
     /\ vsCalls[d].pc = "resolved"
     /\ vsCalls[c].key # vsCalls[d].key)
    => /\ vsCache # 0 => KeyIndex(vsObjs[vsCache], vsCalls[c].key) # 0
       /\ VsRead(vsFile).ok
       /\ KeyIndex(VsRead(vsFile).obj, vsCalls[c].key) # 0

\* C12: when two runs that started from the same file content have both
\* flagged a theme (once each) and both completed, the persisted
\* occurrences of the theme is two more than when they started.
OverlappingRunsBothCount ==
  \A id \in ThemeIds :
    (/\ runs[1].pc = "done" /\ runs[2].pc = "done"
     /\ runs[1].recCalls[id] = 1 /\ runs[2].recCalls[id] = 1
     /\ runs[1].before[id] = runs[2].before[id])
    => FreshOcc(id) = runs[1].before[id] + 2

\* C13: when the gap-store file holds unparsable JSON (here: what a process
\* that died inside save() left), the load of the next recordTheme call
\* succeeds with an empty store.
CorruptGapFileRecovered ==
  (NoRunActive /\ gaFile.state = "partial")
    => FreshLoad.ok /\ FreshLoad.cache = ObjectCache(<<>>)

\* C14: a run that extracted a question and returned has invoked save()
\* exactly once, and every recordTheme call of a run is made while the run
\* has not yet invoked save().
SaveOnceAfterRecords ==
  /\ [](\A r \in AllSlots :
          (runs[r].pc = "done" /\ runs[r].questions) => runs[r].saves = 1)
  /\ [][\A r \in AllSlots :
          (runs[r].pc = "loop" /\ runs'[r].pc = "outline") => runs[r].saves = 0]_vars

\* A run with two gaps, so two recordTheme calls, has returned.
SaveOnceWitness ==
  \E r \in AllSlots :
    /\ runs[r].pc = "done"
    /\ Len(runs[r].suggestions) = 2
    /\ runs[r].saves = 1

\* C15: a run that is waiting for the outline of a gap goes on, whatever the
\* LLM call does, to score that gap and add its suggestion: the wait never
\* ends with the run throwing.
OutlineFailureTolerated ==
  [][\A r \in AllSlots :
       (runs[r].pc = "outline" /\ runs'[r].pc \notin {"outline", "idle"})
         => /\ runs'[r].pc = "loop"
            /\ Len(runs'[r].suggestions) = Len(runs[r].suggestions) + 1]_vars

(***************************************************************************)
(* Claims about clusterQuestions                                           *)
(***************************************************************************)
\* C16: once an embedding call of the run has failed, the run has thrown and
\* has no cluster to return, and no embedding call is issued again: the
\* calls issued never outnumber the questions.
EmbedFailureAborts ==
  /\ cq.issued <= Len(cq.questions)
  /\ cq.failed => (cq.pc = "threw" /\ cq.clusters = <<>>)

\* The run threw although the embedding of another question had succeeded.
EmbedFailureWitness ==
  /\ cq.failed
  /\ cq.pc = "threw"
  /\ \E j \in 1..Len(cq.results) : cq.results[j] # <<>>

VecOf(j) == EmbeddingOf(cq.questions[j])
MembersOf(k) == cq.clusters[k].questions
MemberSet(k) == {MembersOf(k)[m] : m \in 1..Len(MembersOf(k))}

\* The sum of the embeddings of the members of cluster k assigned before
\* question j: a vector in the direction of their mean.
RECURSIVE SumOfEarlier(_, _)
SumOfEarlier(members, j) ==
  IF members = <<>> \/ members[1] >= j THEN <<0, 0>>
  ELSE LET rest == SumOfEarlier(Tail(members), j)
           v == VecOf(members[1])
       IN [d \in 1..2 |-> v[d] + rest[d]]

\* Cluster k existed when question j was assigned and the mean of its
\* members then was at least the threshold similar to the question.
QualifiedFor(k, j) ==
  /\ MembersOf(k)[1] < j
  /\ CosineAtLeast(VecOf(j), SumOfEarlier(MembersOf(k), j), ClusterSimilarityThreshold)

\* C17: every question assigned so far is in exactly one cluster; clusters
\* stand in the order of their first members; a question that joined a
\* cluster joined the earliest cluster that qualified when it was assigned,
\* and a question that opened a cluster found no cluster that qualified.
GreedyFirstMatch ==
  LET K == 1..Len(cq.clusters)
  IN /\ \A j \in 1..(cq.i - 1) : Cardinality({k \in K : j \in MemberSet(k)}) = 1
     /\ \A k \in K : \A m \in 1..(Len(MembersOf(k)) - 1) :
          MembersOf(k)[m] < MembersOf(k)[m + 1]
     /\ \A k \in K : \A h \in K : h < k => MembersOf(h)[1] < MembersOf(k)[1]
     /\ \A k \in K : \A j \in MemberSet(k) :
          /\ \A h \in K : h < k => ~QualifiedFor(h, j)
          /\ MembersOf(k)[1] # j => QualifiedFor(k, j)

\* A question joined a cluster while a later cluster qualified as well.
FirstMatchWitness ==
  /\ cq.pc = "done"
  /\ \E k \in 1..Len(cq.clusters) : \E h \in 1..Len(cq.clusters) :
       \E j \in MemberSet(k) : k < h /\ QualifiedFor(h, j)

\* C18: the centroid of every cluster is the mean of the embeddings of its
\* members: numerator * n = denominator * sum, in every dimension.
CentroidIsMean ==
  \A k \in 1..Len(cq.clusters) : \A d \in 1..2 :
    cq.clusters[k].centroid[d][1] * Len(MembersOf(k))
      = cq.clusters[k].centroid[d][2]
          * SumOfEarlier(MembersOf(k), Len(cq.questions) + 1)[d]

\* A cluster of three members whose mean is not an integer vector.
CentroidWitness ==
  \E k \in 1..Len(cq.clusters) :
    /\ Len(MembersOf(k)) >= 3
    /\ \E d \in 1..2 : cq.clusters[k].centroid[d][2] > 1

RECURSIVE ClustersInInputOrder(_, _, _)
ClustersInInputOrder(questions, i, clusters) ==
  IF i > Len(questions) THEN clusters
  ELSE ClustersInInputOrder(questions, i + 1,
         AssignStep(clusters, i, EmbeddingOf(questions[i])))

Membership(clusters) == [k \in 1..Len(clusters) |-> clusters[k].questions]

\* C19: the membership a run returns is the one assignment in input order
\* gives for its question list, whatever order the embedding calls
\* completed in; so two runs on one list return the same membership.
MembershipDeterministic ==
  cq.pc = "done" =>
    Membership(cq.clusters) = Membership(ClustersInInputOrder(cq.questions, 1, <<>>))

\* A run returned two or more clusters after an embedding call had
\* completed before the call of an earlier question.
OutOfOrderWitness ==
  /\ cq.pc = "done"
  /\ cq.outOfOrder
  /\ Len(cq.clusters) >= 2

IntraBatchConcurrency == 8

\* C20: at most IntraBatchConcurrency embedding calls are in flight.
EmbedConcurrencyBounded == Cardinality(cq.inflight) <= IntraBatchConcurrency

(***************************************************************************)
(* Claims about query, detectGaps and cosineSimilarity (SpecQuery)         *)
(***************************************************************************)
\* C21: a cluster is reported as a gap exactly when the document store is
\* empty or the highest score of its centroid against the stored vectors is
\* strictly below the coverage threshold; a best score equal to the
\* threshold is not a gap.
GapIffBestBelowThreshold ==
  vq.pc = "done" =>
    (vq.gap <=>
       \/ vq.store = <<>>
       \/ \A i \in 1..Len(vq.results) :
            DoubleCompare(vq.results[i].score, CoverageThreshold) < 0)

\* A cluster whose best page scores exactly the threshold, next to a page
\* that scores less, was tested and is not a gap.
BestAtThresholdWitness ==
  /\ vq.pc = "done"
  /\ ~vq.gap
  /\ Len(vq.results) > 1
  /\ \E i \in 1..Len(vq.results) : vq.results[i].score = CoverageThreshold
  /\ \E i \in 1..Len(vq.results) : DoubleCompare(vq.results[i].score, CoverageThreshold) < 0
  /\ \A i \in 1..Len(vq.results) : DoubleCompare(vq.results[i].score, CoverageThreshold) <= 0

IsZeroVector(v) == \A d \in 1..Len(v) : v[d] = 0
StoredVector(pageId) == pageId

\* C25: every score query() returns lies in [-1, 1], and is exactly 0 when
\* the query vector or the stored vector is the zero vector.
ScoresWithinUnit ==
  vq.pc \in {"returned", "done"} =>
    \A i \in 1..Len(vq.nearest) :
      /\ DoubleCompare(DoubleOf(-1), vq.nearest[i].score) <= 0
      /\ DoubleCompare(vq.nearest[i].score, DoubleOf(1)) <= 0
      /\ (IsZeroVector(vq.centroid) \/ IsZeroVector(StoredVector(vq.nearest[i].pageId)))
           => vq.nearest[i].score = DoubleZero

NoQuestionNoWork ==
  \A r \in Slots :
    (runs[r].pc = "done" /\ ~runs[r].questions) =>
      /\ runs[r].suggestions = <<>>
      /\ runs[r].calls = {}
      /\ runs[r].cache = NullCache
      /\ runs[r].saves = 0

\* A run without questions returned over a store file that an earlier run
\* with questions had written.
NoQuestionWitness ==
  \E r \in Slots :
    /\ runs[r].pc = "done"
    /\ ~runs[r].questions
    /\ runsStarted > 1
    /\ gaFile.state = "whole"

(***************************************************************************)
(* Claims about the objects a store hands out (SpecReaders)                *)
(***************************************************************************)
\* C24: an object a store read returned is a private copy: a change of one
\* of its top-level fields changes neither what a later read returns nor
\* what a later save persists.
ReturnedObjectsArePrivate ==
  /\ rd.cache = rd.expected
  /\ gaFile = rd.expectedFile

(***************************************************************************)
(* Claims about embedText (SpecEmbed)                                      *)
(***************************************************************************)
ResponseOf(j) == et.vectors[j][1]

\* C26: embedText on a text within the character budget issues exactly one
\* embedding call and returns its vector unchanged; on a longer text it
\* issues one call per chunk and returns the element-wise arithmetic mean
\* of the chunk vectors.
OneCallOrMeanOfChunks ==
  /\ et.pc # "idle" =>
        /\ et.issued = Len(et.chunks)
        /\ StrLen(et.text) <= MAX_CHARS => et.issued = 1 /\ et.chunks = <<et.text>>
        /\ \A j \in 1..Len(et.chunks) : StrLen(et.chunks[j]) <= MAX_CHARS
        /\ SumSeq([j \in 1..Len(et.chunks) |-> SumSeq(et.chunks[j])]) = SumSeq(et.text)
  /\ et.pc = "done" =>
        /\ StrLen(et.text) <= MAX_CHARS => et.result = FracVector(ResponseOf(1))
        /\ Len(et.result) = Len(ResponseOf(1))
        /\ \A d \in 1..Len(et.result) :
             et.result[d][1] * et.issued =
               et.result[d][2] * SumSeq([j \in 1..et.issued |-> ResponseOf(j)[d]])

\* A text over the budget was cut into three chunks and the mean of three
\* different-summing responses, not a whole number, was returned.
MeanOfThreeWitness ==
  /\ et.pc = "done"
  /\ StrLen(et.text) > MAX_CHARS
  /\ et.issued = 3
  /\ \E d \in 1..Len(et.result) : et.result[d][2] = 3

(***************************************************************************)
(* Claims about extractQuestions (SpecExtract)                             *)
(***************************************************************************)
\* A message that ends in "?" or opens with an interrogative word.
QuestionByTheRule(text) ==
  LET t == TrimTokens(text)
  IN t # <<>> /\ (t[Len(t)] = "?" \/ t[1] \in Interrogatives)

RECURSIVE AllMessageTexts(_)
AllMessageTexts(conversations) ==
  IF conversations = <<>> THEN <<>>
  ELSE [i \in 1..Len(conversations[1].messages) |-> conversations[1].messages[i].text]
       \o AllMessageTexts(Tail(conversations))

\* C27: extractQuestions takes a conversation as a flat array of message
\* strings or as {id, messages}, and returns, in input order, exactly the
\* messages that end in "?" or open with an interrogative word, whoever
\* wrote them.
ExtractsEveryQuestion ==
  xq.pc = "done" =>
    [i \in 1..Len(xq.questions) |-> xq.questions[i].text]
      = [i \in 1..Len(SelectSeq(AllMessageTexts(xq.conversations), QuestionByTheRule)) |->
           TrimTokens(SelectSeq(AllMessageTexts(xq.conversations), QuestionByTheRule)[i])]

(***************************************************************************)
(* Further claims about the write queue (SpecStore)                        *)
(***************************************************************************)
\* C28: a write that fails rejects only the upsert that issued it: the
\* instance with its cache and queue, and every other call, go on as they
\* were, so the writers behind it and later upserts still run.
FailedWriteEndsOnlyItsUpsert ==
  [][\A c \in Calls :
       (Writing(c) /\ vsCalls'[c].pc = "rejected") =>
         /\ vsCache' = vsCache
         /\ \A d \in Calls \ {c} : vsCalls'[d] = vsCalls[d]]_vars

\* C29: when an upsert resolves, the file on disk holds a record for its
\* key, whatever other upsert calls of the instance were interleaved with it.
ResolvedUpsertIsOnDisk ==
  [][\A c \in Calls :
       (vsCalls[c].pc = "renaming" /\ vsCalls'[c].pc = "resolved") =>
         /\ VsRead(vsFile').ok
         /\ KeyIndex(VsRead(vsFile').obj, vsCalls[c].key) # 0]_vars

(***************************************************************************)
(* Further claims about the analyser (SpecAnalyse)                         *)
(***************************************************************************)
StoreBeforeCall == IF an.emptyAtStart THEN <<>> ELSE StoreAfterEarlierCall

\* C30: a run that throws before it has finished leaves the gap store as it
\* was before the run: nothing recorded during the failed run is persisted.
ThrownRunLeavesStore ==
  an.pc = "threw" => cgStore = StoreBeforeCall
====
